---- MODULE Spec2Model ----
(***************************************************************************)
(* A model of go-minesweeper: the cell state machine (cell.go), the field  *)
(* with its recursive auto-reveal (field.go) and the game bookkeeping      *)
(* around them (game.go).  The UI is the pluggable collaborator of         *)
(* Game.Operate: its ParseInput is an input of the model.  Save and        *)
(* Restore are modelled on JSON objects (game.go, field.go).               *)
(***************************************************************************)
EXTENDS Integers, Sequences, FiniteSets, TLC

\* A field of the model is at most MaxWidth wide and MaxHeight high and has at
\* most MaxCells cells (Width * Height).
MaxWidth == 3
MaxHeight == 3
MaxCells == 6

\* A field of the model has at most MaxMineCnt mines.
MaxMineCnt == 1

\* The player of the model keeps at most MaxFlagged cells flagged at a time.
MaxFlagged == 2

\* A snapshot handed to Restore from outside has at most MaxSnapshotCells cells.
MaxSnapshotCells == 2

\* ---------------------------------------------------------------- cell.go

Closed == "Closed"
Opened == "Opened"
Flagged == "Flagged"
Exploded == "Exploded"

CellState == {Closed, Opened, Flagged, Exploded}

\* A nil *Result / a nil error.
NoResult == "nil"
NoErr == "nil"

ErrOpeningOpenedCell == "ErrOpeningOpenedCell"
ErrOpeningFlaggedCell == "ErrOpeningFlaggedCell"
ErrOpeningExplodedCell == "ErrOpeningExplodedCell"
ErrFlaggingOpenedCell == "ErrFlaggingOpenedCell"
ErrFlaggingFlaggedCell == "ErrFlaggingFlaggedCell"
ErrFlaggingExplodedCell == "ErrFlaggingExplodedCell"
ErrUnflaggingNonFlaggedCell == "ErrUnflaggingNonFlaggedCell"
ErrCoordinateOutOfRange == "ErrCoordinateOutOfRange"
ErrOperatingFinishedGame == "ErrOperatingFinishedGame"
\* fmt.Errorf("failed to parse input: %s", ...) of Game.Operate
ErrFailedToParseInput == "failed to parse input"
\* fmt.Errorf("failed to initialize field: %s", ...) of NewGame
ErrFailedToInitializeField == "failed to initialize field"
\* fmt.Errorf("failed to apply GameOption: %s", ...) of NewGame
ErrFailedToApplyGameOption == "failed to apply GameOption"
\* A Go run-time panic: the call does not return.
PanicIndexOutOfRange == "panic: index out of range"
PanicInvalidOpType == "panic: invalid OpType is returned"

\* CellState.String(): the name a state is serialized by.
CellStateString(s) ==
  CASE s = Closed -> "Closed"
    [] s = Opened -> "Opened"
    [] s = Flagged -> "Flagged"
    [] s = Exploded -> "Exploded"

ErrUnknownState == "unknown state is given"

\* strToCellState(str): the state and the error.
strToCellState(str) ==
  CASE str = "Closed" -> [state |-> Closed, err |-> NoErr]
    [] str = "Opened" -> [state |-> Opened, err |-> NoErr]
    [] str = "Flagged" -> [state |-> Flagged, err |-> NoErr]
    [] str = "Exploded" -> [state |-> Exploded, err |-> NoErr]
    [] OTHER -> [state |-> "0", err |-> ErrUnknownState]

newCell(hasMine, surroundingCnt) ==
  [state |-> Closed, mine |-> hasMine, surroundingCnt |-> surroundingCnt]

\* Each cell operation yields the cell after the call, the *Result's NewState
\* (NoResult for a nil result) and the error.
\* cellFlag with the Exploded case missing: the switch falls out and the
\* method returns (nil, nil).
cellFlag_noExplodedCase(c) ==
  CASE c.state = Closed ->
         [cell |-> [c EXCEPT !.state = Flagged], result |-> Flagged, err |-> NoErr]
    [] c.state = Opened ->
         [cell |-> c, result |-> NoResult, err |-> ErrFlaggingOpenedCell]
    [] c.state = Flagged ->
         [cell |-> c, result |-> NoResult, err |-> ErrFlaggingFlaggedCell]
    [] c.state = Exploded ->
         [cell |-> c, result |-> NoResult, err |-> NoErr]

\* cellFlag testing for Closed or Opened where it tests for Closed.
cellFlag_flagOpened(c) ==
  CASE c.state \in {Closed, Opened} ->
         [cell |-> [c EXCEPT !.state = Flagged], result |-> Flagged, err |-> NoErr]
    [] c.state = Flagged ->
         [cell |-> c, result |-> NoResult, err |-> ErrFlaggingFlaggedCell]
    [] c.state = Exploded ->
         [cell |-> c, result |-> NoResult, err |-> ErrFlaggingExplodedCell]

cellFlag(c) ==
  CASE c.state = Closed ->
         [cell |-> [c EXCEPT !.state = Flagged], result |-> Flagged, err |-> NoErr]
    [] c.state = Opened ->
         [cell |-> c, result |-> NoResult, err |-> ErrFlaggingOpenedCell]
    [] c.state = Flagged ->
         [cell |-> c, result |-> NoResult, err |-> ErrFlaggingFlaggedCell]
    [] c.state = Exploded ->
         [cell |-> c, result |-> NoResult, err |-> ErrFlaggingExplodedCell]

\* cellUnflag returning the state it found, not the new one, in its *Result.
cellUnflag_reportsOldState(c) ==
  CASE c.state \in {Closed, Opened, Exploded} ->
         [cell |-> c, result |-> NoResult, err |-> ErrUnflaggingNonFlaggedCell]
    [] c.state = Flagged ->
         [cell |-> [c EXCEPT !.state = Closed], result |-> Flagged, err |-> NoErr]

\* cellUnflag returning a result without writing the cell's state.
cellUnflag_noWrite(c) ==
  CASE c.state \in {Closed, Opened, Exploded} ->
         [cell |-> c, result |-> NoResult, err |-> ErrUnflaggingNonFlaggedCell]
    [] c.state = Flagged ->
         [cell |-> c, result |-> Closed, err |-> NoErr]

cellUnflag(c) ==
  CASE c.state \in {Closed, Opened, Exploded} ->
         [cell |-> c, result |-> NoResult, err |-> ErrUnflaggingNonFlaggedCell]
    [] c.state = Flagged ->
         [cell |-> [c EXCEPT !.state = Closed], result |-> Closed, err |-> NoErr]

\* cellOpen with the Flagged case missing: a flagged cell opens like a closed one.
cellOpen_openFlagged(c) ==
  CASE c.state \in {Closed, Flagged} ->
         IF c.mine
           THEN [cell |-> [c EXCEPT !.state = Exploded], result |-> Exploded, err |-> NoErr]
           ELSE [cell |-> [c EXCEPT !.state = Opened], result |-> Opened, err |-> NoErr]
    [] c.state = Opened ->
         [cell |-> c, result |-> NoResult, err |-> ErrOpeningOpenedCell]
    [] c.state = Exploded ->
         [cell |-> c, result |-> NoResult, err |-> ErrOpeningExplodedCell]

\* cellOpen with the Exploded case returning ErrOpeningOpenedCell.
cellOpen_explodedAsOpened(c) ==
  CASE c.state = Closed ->
         IF c.mine
           THEN [cell |-> [c EXCEPT !.state = Exploded], result |-> Exploded, err |-> NoErr]
           ELSE [cell |-> [c EXCEPT !.state = Opened], result |-> Opened, err |-> NoErr]
    [] c.state = Opened ->
         [cell |-> c, result |-> NoResult, err |-> ErrOpeningOpenedCell]
    [] c.state = Flagged ->
         [cell |-> c, result |-> NoResult, err |-> ErrOpeningFlaggedCell]
    [] c.state = Exploded ->
         [cell |-> c, result |-> NoResult, err |-> ErrOpeningOpenedCell]

\* cellOpen without the test of the mine: a Closed cell always becomes Opened.
cellOpen_ignoresMine(c) ==
  CASE c.state = Closed ->
         [cell |-> [c EXCEPT !.state = Opened], result |-> Opened, err |-> NoErr]
    [] c.state = Opened ->
         [cell |-> c, result |-> NoResult, err |-> ErrOpeningOpenedCell]
    [] c.state = Flagged ->
         [cell |-> c, result |-> NoResult, err |-> ErrOpeningFlaggedCell]
    [] c.state = Exploded ->
         [cell |-> c, result |-> NoResult, err |-> ErrOpeningExplodedCell]

\* cellOpen taking the mine out of the cell it explodes.
cellOpen_clearsMine(c) ==
  CASE c.state = Closed ->
         IF c.mine
           THEN [cell |-> [c EXCEPT !.state = Exploded, !.mine = FALSE],
                 result |-> Exploded, err |-> NoErr]
           ELSE [cell |-> [c EXCEPT !.state = Opened], result |-> Opened, err |-> NoErr]
    [] c.state = Opened ->
         [cell |-> c, result |-> NoResult, err |-> ErrOpeningOpenedCell]
    [] c.state = Flagged ->
         [cell |-> c, result |-> NoResult, err |-> ErrOpeningFlaggedCell]
    [] c.state = Exploded ->
         [cell |-> c, result |-> NoResult, err |-> ErrOpeningExplodedCell]

\* cellOpen reporting Opened without writing the state.
cellOpen_neverWrites(c) ==
  CASE c.state = Closed ->
         IF c.mine
           THEN [cell |-> [c EXCEPT !.state = Exploded], result |-> Exploded, err |-> NoErr]
           ELSE [cell |-> c, result |-> Opened, err |-> NoErr]
    [] c.state = Opened ->
         [cell |-> c, result |-> NoResult, err |-> ErrOpeningOpenedCell]
    [] c.state = Flagged ->
         [cell |-> c, result |-> NoResult, err |-> ErrOpeningFlaggedCell]
    [] c.state = Exploded ->
         [cell |-> c, result |-> NoResult, err |-> ErrOpeningExplodedCell]

cellOpen(c) ==
  CASE c.state = Closed ->
         IF c.mine
           THEN [cell |-> [c EXCEPT !.state = Exploded], result |-> Exploded, err |-> NoErr]
           ELSE [cell |-> [c EXCEPT !.state = Opened], result |-> Opened, err |-> NoErr]
    [] c.state = Opened ->
         [cell |-> c, result |-> NoResult, err |-> ErrOpeningOpenedCell]
    [] c.state = Flagged ->
         [cell |-> c, result |-> NoResult, err |-> ErrOpeningFlaggedCell]
    [] c.state = Exploded ->
         [cell |-> c, result |-> NoResult, err |-> ErrOpeningExplodedCell]

\* --------------------------------------------------------------- field.go

Coordinate(x, y) == [X |-> x, Y |-> y]

\* validateConfig letting a field be all mines.
validateConfig_allowFull(config) ==
  IF config.Width <= 0 THEN "field width is zero"
  ELSE IF config.Height <= 0 THEN "field height is zero"
  ELSE IF config.MineCnt <= 0 THEN "mine count is zero"
  ELSE IF config.Width * config.Height < config.MineCnt THEN "too many mines"
  ELSE NoErr

\* The error of validateConfig, NoErr for a valid configuration.
validateConfig(config) ==
  IF config.Width <= 0 THEN "field width is zero"
  ELSE IF config.Height <= 0 THEN "field height is zero"
  ELSE IF config.MineCnt <= 0 THEN "mine count is zero"
  ELSE IF config.Width * config.Height <= config.MineCnt THEN "too many mines"
  ELSE NoErr

\* mineGrid reading the slice of mines one place further on.
mineGrid_shifted(config, mines) ==
  [i \in 0..(config.Height - 1) |->
     [ii \in 0..(config.Width - 1) |-> (i * config.Width + ii + 1) \in mines]]

\* The [][]bool grid of NewField: mines is the set rand.Perm(n)[:MineCnt] of
\* indexes into the row-major slice.
mineGrid(config, mines) ==
  [i \in 0..(config.Height - 1) |->
     [ii \in 0..(config.Width - 1) |-> (i * config.Width + ii) \in mines]]

\* surroundingCnt with the left diagonals tested as getSurroundingCoordinates
\* tests them.
surroundingCnt_leftDiagonal(config, grid, i, ii) ==
  LET b(cond) == IF cond THEN 1 ELSE 0
      above == IF i > 0
                 THEN b(ii > 1 /\ grid[i-1][ii-1])
                      + b(grid[i-1][ii])
                      + b(ii + 1 < config.Width /\ grid[i-1][ii+1])
                 ELSE 0
      same == b(ii > 0 /\ grid[i][ii-1])
              + b(ii + 1 < config.Width /\ grid[i][ii+1])
      below == IF i + 1 < config.Height
                 THEN b(ii > 1 /\ grid[i+1][ii-1])
                      + b(grid[i+1][ii])
                      + b(ii + 1 < config.Width /\ grid[i+1][ii+1])
                 ELSE 0
  IN above + same + below

\* The neighbour count NewField computes for row i, column ii.
surroundingCnt(config, grid, i, ii) ==
  LET b(cond) == IF cond THEN 1 ELSE 0
      above == IF i > 0
                 THEN b(ii > 0 /\ grid[i-1][ii-1])
                      + b(grid[i-1][ii])
                      + b(ii + 1 < config.Width /\ grid[i-1][ii+1])
                 ELSE 0
      same == b(ii > 0 /\ grid[i][ii-1])
              + b(ii + 1 < config.Width /\ grid[i][ii+1])
      below == IF i + 1 < config.Height
                 THEN b(ii > 0 /\ grid[i+1][ii-1])
                      + b(grid[i+1][ii])
                      + b(ii + 1 < config.Width /\ grid[i+1][ii+1])
                 ELSE 0
  IN above + same + below

\* The *Field NewField returns for a valid configuration and a mine choice.
NewField(config, mines) ==
  LET grid == mineGrid(config, mines) IN
  [Width |-> config.Width,
   Height |-> config.Height,
   Cells |-> [i \in 0..(config.Height - 1) |->
               [ii \in 0..(config.Width - 1) |->
                  newCell(grid[i][ii], surroundingCnt(config, grid, i, ii))]]]

\* A nil *Field.
NilField == [Width |-> 0, Height |-> 0, Cells |-> <<>>]

getSurroundingCoordinates(f, coord) ==
  LET x == coord.X
      y == coord.Y
      opt(cond, c) == IF cond THEN <<c>> ELSE <<>>
      above == IF y > 0
                 THEN opt(x > 1, Coordinate(x - 1, y - 1))
                      \o <<Coordinate(x, y - 1)>>
                      \o opt(x + 1 < f.Width, Coordinate(x + 1, y - 1))
                 ELSE <<>>
      same == opt(x > 0, Coordinate(x - 1, y))
              \o opt(x + 1 < f.Width, Coordinate(x + 1, y))
      below == IF y + 1 < f.Height
                 THEN opt(x > 1, Coordinate(x - 1, y + 1))
                      \o <<Coordinate(x, y + 1)>>
                      \o opt(x + 1 < f.Width, Coordinate(x + 1, y + 1))
                 ELSE <<>>
  IN above \o same \o below

\* Field.Open: the field after the call, the *Result's NewState and the error.
\* openSurrounding is the for loop over getSurroundingCoordinates, from the
\* i-th coordinate on; the result of the recursive f.Open(c) is dropped.
RECURSIVE FieldOpen(_, _), openSurrounding(_, _, _)

\* Field.Open without the early return on Exploded.
FieldOpen_cascadeAfterExplosion(f, coord) ==
  LET x == coord.X
      y == coord.Y
  IN
  IF x + 1 > f.Width \/ y + 1 > f.Height
    THEN [f |-> f, result |-> NoResult, err |-> ErrCoordinateOutOfRange]
  ELSE IF x < 0 \/ y < 0
    THEN [f |-> f, result |-> NoResult, err |-> PanicIndexOutOfRange]
  ELSE
    LET o == cellOpen(f.Cells[y][x])
        f1 == [f EXCEPT !.Cells[y][x] = o.cell]
    IN
    IF o.err # NoErr
      THEN [f |-> f, result |-> NoResult, err |-> o.err]
    ELSE IF o.cell.surroundingCnt = 0
      THEN [f |-> openSurrounding(f1, getSurroundingCoordinates(f1, coord), 1),
            result |-> o.result, err |-> NoErr]
    ELSE [f |-> f1, result |-> o.result, err |-> NoErr]

\* Field.Open without the test of the neighbour count: every Open cascades.
FieldOpen_cascadesAlways(f, coord) ==
  LET x == coord.X
      y == coord.Y
  IN
  IF x + 1 > f.Width \/ y + 1 > f.Height
    THEN [f |-> f, result |-> NoResult, err |-> ErrCoordinateOutOfRange]
  ELSE IF x < 0 \/ y < 0
    THEN [f |-> f, result |-> NoResult, err |-> PanicIndexOutOfRange]
  ELSE
    LET o == cellOpen(f.Cells[y][x])
        f1 == [f EXCEPT !.Cells[y][x] = o.cell]
    IN
    IF o.err # NoErr
      THEN [f |-> f, result |-> NoResult, err |-> o.err]
    ELSE IF o.result = Exploded
      THEN [f |-> f1, result |-> o.result, err |-> NoErr]
    ELSE [f |-> openSurrounding(f1, getSurroundingCoordinates(f1, coord), 1),
          result |-> o.result, err |-> NoErr]

\* Field.Open returning the error of a flagged neighbour the cascade met.
FieldOpen_neighbourError(f, coord) ==
  LET x == coord.X
      y == coord.Y
  IN
  IF x + 1 > f.Width \/ y + 1 > f.Height
    THEN [f |-> f, result |-> NoResult, err |-> ErrCoordinateOutOfRange]
  ELSE IF x < 0 \/ y < 0
    THEN [f |-> f, result |-> NoResult, err |-> PanicIndexOutOfRange]
  ELSE
    LET o == cellOpen(f.Cells[y][x])
        f1 == [f EXCEPT !.Cells[y][x] = o.cell]
        coords == getSurroundingCoordinates(f1, coord)
    IN
    IF o.err # NoErr
      THEN [f |-> f, result |-> NoResult, err |-> o.err]
    ELSE IF o.result = Exploded
      THEN [f |-> f1, result |-> o.result, err |-> NoErr]
    ELSE IF o.cell.surroundingCnt = 0
      THEN IF \E i \in DOMAIN coords :
                f1.Cells[coords[i].Y][coords[i].X].state = Flagged
             THEN [f |-> openSurrounding(f1, coords, 1),
                   result |-> NoResult, err |-> ErrOpeningFlaggedCell]
             ELSE [f |-> openSurrounding(f1, coords, 1),
                   result |-> o.result, err |-> NoErr]
    ELSE [f |-> f1, result |-> o.result, err |-> NoErr]

FieldOpen(f, coord) ==
  LET x == coord.X
      y == coord.Y
  IN
  IF x + 1 > f.Width \/ y + 1 > f.Height
    THEN [f |-> f, result |-> NoResult, err |-> ErrCoordinateOutOfRange]
  ELSE IF x < 0 \/ y < 0
    \* f.Cells[y] / row[x] with a negative index
    THEN [f |-> f, result |-> NoResult, err |-> PanicIndexOutOfRange]
  ELSE
    LET o == cellOpen(f.Cells[y][x])
        f1 == [f EXCEPT !.Cells[y][x] = o.cell]
    IN
    IF o.err # NoErr
      THEN [f |-> f, result |-> NoResult, err |-> o.err]
    ELSE IF o.result = Exploded
      THEN [f |-> f1, result |-> o.result, err |-> NoErr]
    ELSE IF o.cell.surroundingCnt = 0
      THEN [f |-> openSurrounding(f1, getSurroundingCoordinates(f1, coord), 1),
            result |-> o.result, err |-> NoErr]
    ELSE [f |-> f1, result |-> o.result, err |-> NoErr]

openSurrounding(f, coords, i) ==
  IF i > Len(coords)
    THEN f
  ELSE IF f.Cells[coords[i].Y][coords[i].X].state = Closed
    THEN openSurrounding(FieldOpen(f, coords[i]).f, coords, i + 1)
  ELSE openSurrounding(f, coords, i + 1)

FieldFlag(f, coord) ==
  LET x == coord.X
      y == coord.Y
  IN
  IF x + 1 > f.Width \/ y + 1 > f.Height
    THEN [f |-> f, result |-> NoResult, err |-> ErrCoordinateOutOfRange]
  ELSE IF x < 0 \/ y < 0
    THEN [f |-> f, result |-> NoResult, err |-> PanicIndexOutOfRange]
  ELSE
    LET o == cellFlag(f.Cells[y][x]) IN
    [f |-> [f EXCEPT !.Cells[y][x] = o.cell], result |-> o.result, err |-> o.err]

FieldUnflag(f, coord) ==
  LET x == coord.X
      y == coord.Y
  IN
  IF x + 1 > f.Width \/ y + 1 > f.Height
    THEN [f |-> f, result |-> NoResult, err |-> ErrCoordinateOutOfRange]
  ELSE IF x < 0 \/ y < 0
    THEN [f |-> f, result |-> NoResult, err |-> PanicIndexOutOfRange]
  ELSE
    LET o == cellUnflag(f.Cells[y][x]) IN
    [f |-> [f EXCEPT !.Cells[y][x] = o.cell], result |-> o.result, err |-> o.err]

\* A JSON object is a record whose fields are the keys it has (a key that is
\* not given is not in its DOMAIN) and a JSON array is a sequence.

\* Field.MarshalJSON: width, height and the rows of cells.
FieldMarshalJSON(f) ==
  [width |-> f.Width,
   height |-> f.Height,
   cells |-> [i \in 1..f.Height |->
               [ii \in 1..f.Width |->
                  LET c == f.Cells[i - 1][ii - 1]
                  IN [state |-> CellStateString(c.state),
                      has_mine |-> c.mine,
                      surrounding_count |-> c.surroundingCnt]]]]

ErrWidthNotGiven == "\"width\" field is not given"
ErrHeightNotGiven == "\"height\" field is not given"
ErrCellsNotGiven == "\"cells\" field is not given"
ErrStateNotGiven == "\"state\" field is not given"
ErrHasMineNotGiven == "\"has_mine\" field is not given"
ErrSurroundingCountNotGiven == "\"surrounding_count\" field is not given"
ErrFailedToConvertState == "failed to convert given state value"
\* make([]T, n) with a negative n
PanicMakeslice == "panic: makeslice: len out of range"

\* A nil Cell, the zero value of an entry of make([]Cell, n).
NilCell == [state |-> "nil", mine |-> FALSE, surroundingCnt |-> 0]

\* The body of the inner loop of Field.UnmarshalJSON up to the &cell{...}
\* literal, with newCell in the literal's place: every cell comes back Closed.
decodeCell_newCell(c) ==
  IF "state" \notin DOMAIN c
    THEN [cell |-> NilCell, err |-> ErrStateNotGiven]
  ELSE IF "has_mine" \notin DOMAIN c
    THEN [cell |-> NilCell, err |-> ErrHasMineNotGiven]
  ELSE IF "surrounding_count" \notin DOMAIN c
    THEN [cell |-> NilCell, err |-> ErrSurroundingCountNotGiven]
  ELSE IF strToCellState(c.state).err # NoErr
    THEN [cell |-> NilCell, err |-> ErrFailedToConvertState]
  ELSE [cell |-> newCell(c.has_mine, c.surrounding_count), err |-> NoErr]

\* The body of the inner loop of Field.UnmarshalJSON up to the &cell{...}
\* literal: the cell decoded from the JSON object c, and the error.
decodeCell(c) ==
  IF "state" \notin DOMAIN c
    THEN [cell |-> NilCell, err |-> ErrStateNotGiven]
  ELSE IF "has_mine" \notin DOMAIN c
    THEN [cell |-> NilCell, err |-> ErrHasMineNotGiven]
  ELSE IF "surrounding_count" \notin DOMAIN c
    THEN [cell |-> NilCell, err |-> ErrSurroundingCountNotGiven]
  ELSE IF strToCellState(c.state).err # NoErr
    THEN [cell |-> NilCell, err |-> ErrFailedToConvertState]
  ELSE [cell |-> [state |-> strToCellState(c.state).state,
                  mine |-> c.has_mine,
                  surroundingCnt |-> c.surrounding_count],
        err |-> NoErr]

\* The inner loop of Field.UnmarshalJSON from the ii-th entry of row on:
\* cells is the slice made for the row, width its length.
RECURSIVE decodeRow(_, _, _, _)
decodeRow(row, width, ii, cells) ==
  IF ii > Len(row)
    THEN [cells |-> cells, err |-> NoErr]
  ELSE
    LET d == decodeCell(row[ii]) IN
    IF d.err # NoErr
      THEN [cells |-> cells, err |-> d.err]
    ELSE IF ii > width
      \* cells[ii] = ... past the end of make([]Cell, f.Width)
      THEN [cells |-> cells, err |-> PanicIndexOutOfRange]
    ELSE decodeRow(row, width, ii + 1, [cells EXCEPT ![ii - 1] = d.cell])

\* The outer loop of Field.UnmarshalJSON from the i-th row of rows on: f is
\* the field so far.
RECURSIVE decodeRows(_, _, _)
decodeRows(rows, i, f) ==
  IF i > Len(rows)
    THEN [f |-> f, err |-> NoErr]
  ELSE IF f.Width < 0
    THEN [f |-> f, err |-> PanicMakeslice]
  ELSE
    LET r == decodeRow(rows[i], f.Width, 1,
                       [ii \in 0..(f.Width - 1) |-> NilCell])
    IN
    IF r.err # NoErr
      THEN [f |-> f, err |-> r.err]
    ELSE IF i > f.Height
      \* f.Cells[i] = cells past the end of make([][]Cell, f.Height)
      THEN [f |-> f, err |-> PanicIndexOutOfRange]
    ELSE decodeRows(rows, i + 1, [f EXCEPT !.Cells[i - 1] = r.cells])

\* Field.UnmarshalJSON of the JSON object doc: the field and the error.  A row
\* that is not given stays a nil slice.
FieldUnmarshalJSON(doc) ==
  IF "width" \notin DOMAIN doc
    THEN [f |-> NilField, err |-> ErrWidthNotGiven]
  ELSE IF "height" \notin DOMAIN doc
    THEN [f |-> NilField, err |-> ErrHeightNotGiven]
  ELSE IF "cells" \notin DOMAIN doc
    THEN [f |-> NilField, err |-> ErrCellsNotGiven]
  ELSE IF doc.height < 0
    THEN [f |-> NilField, err |-> PanicMakeslice]
  ELSE decodeRows(doc.cells, 1,
                  [Width |-> doc.width,
                   Height |-> doc.height,
                   Cells |-> [i \in 0..(doc.height - 1) |-> <<>>]])

\* ---------------------------------------------------------------- game.go

\* No *Game exists yet (NewGame has not returned one).
NoGame == "NoGame"
InProgress == "InProgress"
Cleared == "Cleared"
Lost == "Lost"

Open == "Open"
Flag == "Flag"
Unflag == "Unflag"
\* The zero OpType a UI returns together with an error.
NoOp == "0"
OpType == {Open, Flag, Unflag}

VARIABLES
  field,   \* Game.field
  state,   \* Game.state, NoGame before construction
  quota,   \* Game.quota
  opened,  \* Game.opened
  ret      \* the last call: what it was given and what it returned, with
           \* the call stack or the defaultUI where a call is followed
           \* step by step or made on a UI

vars == <<field, state, quota, opened, ret>>

NoCoord == Coordinate(0, 0)

\* The last call was call; ParseInput was invoked iff parsed and returned the
\* operation op, or an error when op = NoOp; the call returned (st, err).
Return(call, parsed, op, st, err) ==
  [call |-> call, parsed |-> parsed, op |-> op, state |-> st, err |-> err]

Panicked == ret.err \in {PanicIndexOutOfRange, PanicInvalidOpType}

\* The configurations NewGame is tried with, invalid ones included.
Configs ==
  {cfg \in [Width : -1..MaxWidth, Height : -1..MaxHeight, MineCnt : -1..MaxMineCnt] :
     cfg.Width * cfg.Height <= MaxCells}

\* The coordinates of the cells of f.
InRange(f) ==
  {Coordinate(x, y) : x \in 0..(f.Width - 1), y \in 0..(f.Height - 1)}

\* Coordinates just outside f: past the last column or row, or negative.
OutOfRange(f) ==
  {Coordinate(f.Width, 0), Coordinate(0, f.Height),
   Coordinate(-1, 0), Coordinate(0, -1), Coordinate(-1, f.Height)}

\* What a UI's ParseInput may hand to Game.Operate for the field f: an error,
\* or an operation with a coordinate inside or just outside the field.
ParseResults(f) ==
  LET flagged == Cardinality({c \in InRange(f) : f.Cells[c.Y][c.X].state = Flagged})
      ops == IF flagged < MaxFlagged THEN OpType ELSE OpType \ {Flag}
  IN {[op |-> NoOp, coord |-> NoCoord]}
     \cup {[op |-> o, coord |-> c] : o \in ops, c \in InRange(f) \cup OutOfRange(f)}

\* handleOpenResult of Game.Operate: the game's state and opened afterwards.
handleOpenResult_clearedEarly(g, r) ==
  IF r = NoResult THEN g
  ELSE IF r = Exploded THEN [g EXCEPT !.state = Lost]
  ELSE [state |-> IF g.quota = g.opened + 2 THEN Cleared ELSE g.state,
        quota |-> g.quota,
        opened |-> g.opened + 1]

\* handleOpenResult with the win test opened >= quota.
handleOpenResult_atLeastQuota(g, r) ==
  IF r = NoResult THEN g
  ELSE IF r = Exploded THEN [g EXCEPT !.state = Lost]
  ELSE [state |-> IF g.quota <= g.opened + 1 THEN Cleared ELSE g.state,
        quota |-> g.quota,
        opened |-> g.opened + 1]

\* handleOpenResult counting the explosion as an opened cell.
handleOpenResult_countsExplosion(g, r) ==
  IF r = NoResult THEN g
  ELSE IF r = Exploded
    THEN [state |-> Lost, quota |-> g.quota, opened |-> g.opened + 1]
  ELSE [state |-> IF g.quota = g.opened + 1 THEN Cleared ELSE g.state,
        quota |-> g.quota,
        opened |-> g.opened + 1]

handleOpenResult(g, r) ==
  IF r = NoResult THEN g
  ELSE IF r = Exploded THEN [g EXCEPT !.state = Lost]
  ELSE [state |-> IF g.quota = g.opened + 1 THEN Cleared ELSE g.state,
        quota |-> g.quota,
        opened |-> g.opened + 1]

Init ==
  /\ field = NilField
  /\ state = NoGame
  /\ quota = 0
  /\ opened = 0
  /\ ret = Return("none", FALSE, NoOp, NoGame, NoErr)

\* The sets rand.Perm(n)[:MineCnt] can be, when NewField gets that far.
MinePicks(config, optErr) ==
  IF optErr \/ validateConfig(config) # NoErr
    THEN {{}}
    ELSE {m \in SUBSET (0..(config.Width * config.Height - 1)) :
            Cardinality(m) = config.MineCnt}

\* The options NewGame is called with: none, WithUI(ui) with a UI of the
\* caller's, or an option that returns an error.
NoOption == "none"
WithUI == "WithUI"
FailingOption == "failing"
GameOptions == {NoOption, WithUI, FailingOption}

\* Game.ui: nil, the UI handed to WithUI, or a &defaultUI{}.
NilUI == "nil"
SuppliedUI == "supplied"
DefaultUI == "defaultUI"

\* The last call was NewGame: it returned a game in state st with the UI ui,
\* or the error err and no game.
NewGameReturn(st, err, ui) ==
  [call |-> "NewGame", parsed |-> FALSE, op |-> NoOp, state |-> st,
   err |-> err, ui |-> ui]

\* NewGame leaving Game.ui as the options set it.
NewGame_noDefaultUI(config, opt, mines) ==
  /\ state = NoGame
  /\ IF opt = FailingOption
       THEN /\ ret' = NewGameReturn(NoGame, ErrFailedToApplyGameOption, NilUI)
            /\ UNCHANGED <<field, state, quota, opened>>
     ELSE IF validateConfig(config) # NoErr
       THEN /\ ret' = NewGameReturn(NoGame, ErrFailedToInitializeField, NilUI)
            /\ UNCHANGED <<field, state, quota, opened>>
     ELSE /\ field' = NewField(config, mines)
          /\ state' = InProgress
          /\ quota' = config.Width * config.Height - config.MineCnt
          /\ opened' = 0
          /\ ret' = NewGameReturn(InProgress, NoErr,
                                  IF opt = WithUI THEN SuppliedUI ELSE NilUI)

\* NewGame(config, options...): opt is the option given, mines the mine
\* positions rand.Perm picks.
NewGame(config, opt, mines) ==
  /\ state = NoGame
  /\ IF opt = FailingOption
       THEN /\ ret' = NewGameReturn(NoGame, ErrFailedToApplyGameOption, NilUI)
            /\ UNCHANGED <<field, state, quota, opened>>
     ELSE IF validateConfig(config) # NoErr
       THEN /\ ret' = NewGameReturn(NoGame, ErrFailedToInitializeField, NilUI)
            /\ UNCHANGED <<field, state, quota, opened>>
     ELSE LET ui == IF opt = WithUI THEN SuppliedUI ELSE NilUI
          IN /\ field' = NewField(config, mines)
             /\ state' = InProgress
             /\ quota' = config.Width * config.Height - config.MineCnt
             /\ opened' = 0
             /\ ret' = NewGameReturn(InProgress, NoErr,
                                     IF ui = NilUI THEN DefaultUI ELSE ui)

\* Game.Operate asking the UI before it looks at the game's state.
Operate_parseFirst(p) ==
  /\ state # NoGame
  /\ ~Panicked
  /\ IF p.op = NoOp
       THEN /\ ret' = Return("Operate", TRUE, NoOp, state,
                             ErrFailedToParseInput)
            /\ UNCHANGED <<field, state, quota, opened>>
     ELSE IF state # InProgress
       THEN /\ ret' = Return("Operate", TRUE, p.op, state,
                             ErrOperatingFinishedGame)
            /\ UNCHANGED <<field, state, quota, opened>>
     ELSE IF p.op = Open
       THEN LET r == FieldOpen(field, p.coord)
                g == handleOpenResult(
                       [state |-> state, quota |-> quota, opened |-> opened],
                       r.result)
            IN /\ field' = r.f
               /\ state' = g.state
               /\ opened' = g.opened
               /\ quota' = g.quota
               /\ ret' = Return("Operate", TRUE, p.op, g.state, r.err)
     ELSE LET r == IF p.op = Flag THEN FieldFlag(field, p.coord)
                                  ELSE FieldUnflag(field, p.coord)
          IN /\ field' = r.f
             /\ ret' = Return("Operate", TRUE, p.op, state, r.err)
             /\ UNCHANGED <<state, quota, opened>>

\* Game.Operate without the check for a finished game.
Operate_noFinishedCheck(p) ==
  /\ state # NoGame
  /\ ~Panicked
  /\ IF p.op = NoOp
       THEN /\ ret' = Return("Operate", TRUE, NoOp, state,
                             ErrFailedToParseInput)
            /\ UNCHANGED <<field, state, quota, opened>>
     ELSE IF p.op = Open
       THEN LET r == FieldOpen(field, p.coord)
                g == handleOpenResult(
                       [state |-> state, quota |-> quota, opened |-> opened],
                       r.result)
            IN /\ field' = r.f
               /\ state' = g.state
               /\ opened' = g.opened
               /\ quota' = g.quota
               /\ ret' = Return("Operate", TRUE, p.op, g.state, r.err)
     ELSE LET r == IF p.op = Flag THEN FieldFlag(field, p.coord)
                                  ELSE FieldUnflag(field, p.coord)
          IN /\ field' = r.f
             /\ ret' = Return("Operate", TRUE, p.op, state, r.err)
             /\ UNCHANGED <<state, quota, opened>>

\* Game.Operate without the check of ParseInput's error: the zero OpType
\* reaches the switch and its default case panics.
Operate_ignoreParseError(p) ==
  /\ state # NoGame
  /\ ~Panicked
  /\ IF state # InProgress
       THEN /\ ret' = Return("Operate", FALSE, NoOp, state,
                             ErrOperatingFinishedGame)
            /\ UNCHANGED <<field, state, quota, opened>>
     ELSE IF p.op = NoOp
       THEN /\ ret' = Return("Operate", TRUE, NoOp, state, PanicInvalidOpType)
            /\ UNCHANGED <<field, state, quota, opened>>
     ELSE IF p.op = Open
       THEN LET r == FieldOpen(field, p.coord)
                g == handleOpenResult(
                       [state |-> state, quota |-> quota, opened |-> opened],
                       r.result)
            IN /\ field' = r.f
               /\ state' = g.state
               /\ opened' = g.opened
               /\ quota' = g.quota
               /\ ret' = Return("Operate", TRUE, p.op, g.state, r.err)
     ELSE LET r == IF p.op = Flag THEN FieldFlag(field, p.coord)
                                  ELSE FieldUnflag(field, p.coord)
          IN /\ field' = r.f
             /\ ret' = Return("Operate", TRUE, p.op, state, r.err)
             /\ UNCHANGED <<state, quota, opened>>

\* Game.Operate passing every result of Field.Open to the counting branch of
\* handleOpenResult, a nil result of a failed Open included.
Operate_countFailedOpen(p) ==
  /\ state # NoGame
  /\ ~Panicked
  /\ IF state # InProgress
       THEN /\ ret' = Return("Operate", FALSE, NoOp, state,
                             ErrOperatingFinishedGame)
            /\ UNCHANGED <<field, state, quota, opened>>
     ELSE IF p.op = NoOp
       THEN /\ ret' = Return("Operate", TRUE, NoOp, state,
                             ErrFailedToParseInput)
            /\ UNCHANGED <<field, state, quota, opened>>
     ELSE IF p.op = Open
       THEN LET r == FieldOpen(field, p.coord)
                g == handleOpenResult(
                       [state |-> state, quota |-> quota, opened |-> opened],
                       IF r.result = NoResult /\ r.err # PanicIndexOutOfRange
                         THEN Opened ELSE r.result)
            IN /\ field' = r.f
               /\ state' = g.state
               /\ opened' = g.opened
               /\ quota' = g.quota
               /\ ret' = Return("Operate", TRUE, p.op, g.state, r.err)
     ELSE LET r == IF p.op = Flag THEN FieldFlag(field, p.coord)
                                  ELSE FieldUnflag(field, p.coord)
          IN /\ field' = r.f
             /\ ret' = Return("Operate", TRUE, p.op, state, r.err)
             /\ UNCHANGED <<state, quota, opened>>

\* Game.Operate handing the result of Field.Flag and Field.Unflag to
\* handleOpenResult, as it does with the result of Field.Open.
Operate_flagHandledAsOpen(p) ==
  /\ state # NoGame
  /\ ~Panicked
  /\ IF state # InProgress
       THEN /\ ret' = Return("Operate", FALSE, NoOp, state,
                             ErrOperatingFinishedGame)
            /\ UNCHANGED <<field, state, quota, opened>>
     ELSE IF p.op = NoOp
       THEN /\ ret' = Return("Operate", TRUE, NoOp, state,
                             ErrFailedToParseInput)
            /\ UNCHANGED <<field, state, quota, opened>>
     ELSE LET r == IF p.op = Open THEN FieldOpen(field, p.coord)
                   ELSE IF p.op = Flag THEN FieldFlag(field, p.coord)
                   ELSE FieldUnflag(field, p.coord)
              g == handleOpenResult(
                     [state |-> state, quota |-> quota, opened |-> opened],
                     r.result)
          IN /\ field' = r.f
             /\ state' = g.state
             /\ opened' = g.opened
             /\ quota' = g.quota
             /\ ret' = Return("Operate", TRUE, p.op, g.state, r.err)

\* Game.Operate with the state to return read before handleOpenResult runs.
Operate_returnsStateBeforeResult(p) ==
  /\ state # NoGame
  /\ ~Panicked
  /\ IF state # InProgress
       THEN /\ ret' = Return("Operate", FALSE, NoOp, state,
                             ErrOperatingFinishedGame)
            /\ UNCHANGED <<field, state, quota, opened>>
     ELSE IF p.op = NoOp
       THEN /\ ret' = Return("Operate", TRUE, NoOp, state,
                             ErrFailedToParseInput)
            /\ UNCHANGED <<field, state, quota, opened>>
     ELSE IF p.op = Open
       THEN LET r == FieldOpen(field, p.coord)
                g == handleOpenResult(
                       [state |-> state, quota |-> quota, opened |-> opened],
                       r.result)
            IN /\ field' = r.f
               /\ state' = g.state
               /\ opened' = g.opened
               /\ quota' = g.quota
               /\ ret' = Return("Operate", TRUE, p.op, state, r.err)
     ELSE LET r == IF p.op = Flag THEN FieldFlag(field, p.coord)
                                  ELSE FieldUnflag(field, p.coord)
          IN /\ field' = r.f
             /\ ret' = Return("Operate", TRUE, p.op, state, r.err)
             /\ UNCHANGED <<state, quota, opened>>

\* Game.Operate(str), p being what g.ui.ParseInput(str) returns.
Operate(p) ==
  /\ state # NoGame
  /\ ~Panicked
  /\ IF state # InProgress
       THEN /\ ret' = Return("Operate", FALSE, NoOp, state,
                             ErrOperatingFinishedGame)
            /\ UNCHANGED <<field, state, quota, opened>>
     ELSE IF p.op = NoOp
       THEN /\ ret' = Return("Operate", TRUE, NoOp, state,
                             ErrFailedToParseInput)
            /\ UNCHANGED <<field, state, quota, opened>>
     ELSE IF p.op = Open
       THEN LET r == FieldOpen(field, p.coord)
                g == handleOpenResult(
                       [state |-> state, quota |-> quota, opened |-> opened],
                       r.result)
            IN /\ field' = r.f
               /\ state' = g.state
               /\ opened' = g.opened
               /\ quota' = g.quota
               /\ ret' = Return("Operate", TRUE, p.op, g.state, r.err)
     ELSE LET r == IF p.op = Flag THEN FieldFlag(field, p.coord)
                                  ELSE FieldUnflag(field, p.coord)
          IN /\ field' = r.f
             /\ ret' = Return("Operate", TRUE, p.op, state, r.err)
             /\ UNCHANGED <<state, quota, opened>>

Next ==
  \/ /\ state = NoGame
     /\ \E config \in Configs, opt \in GameOptions :
          \E mines \in MinePicks(config, opt = FailingOption) :
            NewGame(config, opt, mines)
  \/ /\ state # NoGame
     /\ \E p \in ParseResults(field) : Operate(p)

Spec == Init /\ [][Next]_vars

\* ------------------------------------------------------ Save and Restore

\* GameState.String(): the name a state is serialized by.
GameStateString(s) ==
  CASE s = InProgress -> "InProgress"
    [] s = Cleared -> "Cleared"
    [] s = Lost -> "Lost"

\* strToGameState(str): the state and the error.
strToGameState(str) ==
  CASE str = "InProgress" -> [state |-> InProgress, err |-> NoErr]
    [] str = "Cleared" -> [state |-> Cleared, err |-> NoErr]
    [] str = "Lost" -> [state |-> Lost, err |-> NoErr]
    [] OTHER -> [state |-> "0", err |-> ErrUnknownState]

ErrQuotaNotGiven == "\"quota\" field is not given"
ErrOpenedNotGiven == "\"opened\" field is not given"
ErrFieldNotGiven == "\"field\" field is not given"
\* fmt.Errorf("failed to construct Field: %s", ...) of Restore
ErrFailedToConstructField == "failed to construct Field"

\* A *Game as a value, and the nil *Game.
GameValue(st, q, o, f) == [state |-> st, quota |-> q, opened |-> o, field |-> f]
NilGame == GameValue(NoGame, 0, 0, NilField)

\* Game.Save: the JSON object whose bytes are written.
Save(g) ==
  [field |-> FieldMarshalJSON(g.field),
   state |-> GameStateString(g.state),
   quota |-> g.quota,
   opened |-> g.opened]

\* Restore without the check that "quota" is given: gjson's Int() of a value
\* that does not exist is 0.
Restore_noQuotaCheck(doc, optErr) ==
  IF optErr
    THEN [game |-> NilGame, err |-> ErrFailedToApplyGameOption]
  ELSE IF "state" \notin DOMAIN doc
    THEN [game |-> NilGame, err |-> ErrStateNotGiven]
  ELSE IF strToGameState(doc.state).err # NoErr
    THEN [game |-> NilGame, err |-> strToGameState(doc.state).err]
  ELSE IF "opened" \notin DOMAIN doc
    THEN [game |-> NilGame, err |-> ErrOpenedNotGiven]
  ELSE IF "field" \notin DOMAIN doc
    THEN [game |-> NilGame, err |-> ErrFieldNotGiven]
  ELSE
    LET d == FieldUnmarshalJSON(doc.field) IN
    IF d.err \in {PanicIndexOutOfRange, PanicMakeslice}
      THEN [game |-> NilGame, err |-> d.err]
    ELSE IF d.err # NoErr
      THEN [game |-> NilGame, err |-> ErrFailedToConstructField]
    ELSE [game |-> GameValue(strToGameState(doc.state).state,
                             IF "quota" \in DOMAIN doc THEN doc.quota ELSE 0,
                             doc.opened, d.f),
          err |-> NoErr]

\* Restore recomputing quota from the decoded field, as NewGame computes it
\* from the configuration.
Restore_quotaFromField(doc, optErr) ==
  IF optErr
    THEN [game |-> NilGame, err |-> ErrFailedToApplyGameOption]
  ELSE IF "state" \notin DOMAIN doc
    THEN [game |-> NilGame, err |-> ErrStateNotGiven]
  ELSE IF strToGameState(doc.state).err # NoErr
    THEN [game |-> NilGame, err |-> strToGameState(doc.state).err]
  ELSE IF "quota" \notin DOMAIN doc
    THEN [game |-> NilGame, err |-> ErrQuotaNotGiven]
  ELSE IF "opened" \notin DOMAIN doc
    THEN [game |-> NilGame, err |-> ErrOpenedNotGiven]
  ELSE IF "field" \notin DOMAIN doc
    THEN [game |-> NilGame, err |-> ErrFieldNotGiven]
  ELSE
    LET d == FieldUnmarshalJSON(doc.field) IN
    IF d.err \in {PanicIndexOutOfRange, PanicMakeslice}
      THEN [game |-> NilGame, err |-> d.err]
    ELSE IF d.err # NoErr
      THEN [game |-> NilGame, err |-> ErrFailedToConstructField]
    ELSE [game |-> GameValue(strToGameState(doc.state).state,
                             Cardinality({c \in InRange(d.f) :
                                            ~d.f.Cells[c.Y][c.X].mine}),
                             doc.opened, d.f),
          err |-> NoErr]

\* Restore(r, options...) reading the JSON object doc: the *Game and the
\* error.  optErr is the error of the options.
Restore(doc, optErr) ==
  IF optErr
    THEN [game |-> NilGame, err |-> ErrFailedToApplyGameOption]
  ELSE IF "state" \notin DOMAIN doc
    THEN [game |-> NilGame, err |-> ErrStateNotGiven]
  ELSE IF strToGameState(doc.state).err # NoErr
    THEN [game |-> NilGame, err |-> strToGameState(doc.state).err]
  ELSE IF "quota" \notin DOMAIN doc
    THEN [game |-> NilGame, err |-> ErrQuotaNotGiven]
  ELSE IF "opened" \notin DOMAIN doc
    THEN [game |-> NilGame, err |-> ErrOpenedNotGiven]
  ELSE IF "field" \notin DOMAIN doc
    THEN [game |-> NilGame, err |-> ErrFieldNotGiven]
  ELSE
    LET d == FieldUnmarshalJSON(doc.field) IN
    IF d.err \in {PanicIndexOutOfRange, PanicMakeslice}
      THEN [game |-> NilGame, err |-> d.err]
    ELSE IF d.err # NoErr
      THEN [game |-> NilGame, err |-> ErrFailedToConstructField]
    ELSE [game |-> GameValue(strToGameState(doc.state).state,
                             doc.quota, doc.opened, d.f),
          err |-> NoErr]

\* The last call was Save or Restore (call): doc is the JSON object written or
\* read, optErr whether a GameOption failed, err the error returned.
SnapshotReturn(call, doc, optErr, err) ==
  [call |-> call, doc |-> doc, optErr |-> optErr, err |-> err]

\* g.Save(w) on a writer that takes every byte.
CallSave ==
  /\ state # NoGame
  /\ ~Panicked
  /\ ret' = SnapshotReturn(
              "Save",
              Save(GameValue(state, quota, opened, field)),
              FALSE, NoErr)
  /\ UNCHANGED <<field, state, quota, opened>>

\* Restore(r, options...) on a reader of doc; the game of the model becomes
\* the one returned, if one is.
CallRestore(doc, optErr) ==
  LET r == Restore(doc, optErr)
  IN /\ field' = r.game.field
     /\ state' = r.game.state
     /\ quota' = r.game.quota
     /\ opened' = r.game.opened
     /\ ret' = SnapshotReturn("Restore", doc, optErr, r.err)

\* A game, saved now and then and restored from the bytes just written.
NextSave ==
  \/ /\ state = NoGame
     /\ \E config \in Configs, opt \in GameOptions :
          \E mines \in MinePicks(config, opt = FailingOption) :
            NewGame(config, opt, mines)
  \/ /\ state # NoGame
     /\ \E p \in ParseResults(field) : Operate(p)
  \/ CallSave
  \/ /\ ret.call = "Save"
     /\ CallRestore(ret.doc, FALSE)

SpecSave == Init /\ [][NextSave]_vars

CellStateNames == {"Closed", "Opened", "Flagged", "Exploded"}
GameStateNames == {"InProgress", "Cleared", "Lost"}

\* The JSON objects a cell of a snapshot may be: complete ones with a known
\* or an unknown state name, and ones with a key missing.
CellDocs ==
  [state : CellStateNames, has_mine : BOOLEAN, surrounding_count : {1}]
  \cup {[state |-> "INVALID", has_mine |-> FALSE, surrounding_count |-> 1],
        [has_mine |-> FALSE, surrounding_count |-> 1],
        [state |-> "Closed", surrounding_count |-> 1],
        [state |-> "Closed", has_mine |-> FALSE]}

\* The grids of h rows of w cells each, over the cell objects S.
Grids(w, h, S) == [1..h -> [1..w -> S]]

SnapshotShapes ==
  {sh \in (1..MaxSnapshotCells) \X (1..MaxSnapshotCells) :
     sh[1] * sh[2] <= MaxSnapshotCells}

\* The JSON objects the "field" of a snapshot may be: a grid that agrees with
\* the declared width and height; one with a key missing; one whose grid has
\* a row or an entry more than declared.
FieldDocs ==
  LET plain == {[state |-> "Closed", has_mine |-> FALSE, surrounding_count |-> 1],
                [has_mine |-> FALSE, surrounding_count |-> 1]}
      full == [width |-> 1, height |-> 1,
               cells |-> <<<<[state |-> "Opened", has_mine |-> FALSE,
                              surrounding_count |-> 1]>>>>]
  IN UNION {[width : {sh[1]}, height : {sh[2]},
             cells : Grids(sh[1], sh[2], CellDocs)] : sh \in SnapshotShapes}
     \cup {[height |-> full.height, cells |-> full.cells],
           [width |-> full.width, cells |-> full.cells],
           [width |-> full.width, height |-> full.height]}
     \cup UNION {[width : {sh[1] - 1, sh[1]}, height : {sh[2] - 1, sh[2]},
                  cells : Grids(sh[1], sh[2], plain)] : sh \in SnapshotShapes}

\* The values of "quota" and "opened" in a snapshot.
CounterDocs == {0, 1, MaxSnapshotCells}

\* The JSON objects Restore is given: all four keys, or one of them missing.
Snapshots ==
  [state : GameStateNames \cup {"INVALID"}, quota : CounterDocs,
   opened : CounterDocs, field : FieldDocs]
  \cup [quota : CounterDocs, opened : CounterDocs, field : FieldDocs]
  \cup [state : GameStateNames \cup {"INVALID"}, opened : CounterDocs,
        field : FieldDocs]
  \cup [state : GameStateNames \cup {"INVALID"}, quota : CounterDocs,
        field : FieldDocs]
  \cup [state : GameStateNames \cup {"INVALID"}, quota : CounterDocs,
        opened : CounterDocs]

\* The two ways to a Game: NewGame, or Restore of a snapshot from outside.
NextRestore ==
  \/ /\ state = NoGame
     /\ ret.call = "none"
     /\ \E config \in Configs, opt \in GameOptions :
          \E mines \in MinePicks(config, opt = FailingOption) :
            NewGame(config, opt, mines)
  \/ /\ state = NoGame
     /\ ret.call = "none"
     /\ \E doc \in Snapshots, optErr \in BOOLEAN : CallRestore(doc, optErr)

SpecRestore == Init /\ [][NextRestore]_vars

\* ------------------------------------------- a Field used without a Game

\* The last call on the Field: the operation, the *Result's NewState (NoResult
\* for nil) and the error it returned.
FieldReturn(op, result, err) ==
  [call |-> "Field", op |-> op, result |-> result, err |-> err]

\* What a caller hands to the Field f: an operation, with the cap on flags of
\* ParseResults, and a coordinate inside the field, past its last column or
\* above its first row.
FieldInputs(f) ==
  LET ops == IF Cardinality({c \in InRange(f) : f.Cells[c.Y][c.X].state = Flagged})
                  < MaxFlagged
               THEN OpType ELSE OpType \ {Flag}
  IN {[op |-> o, coord |-> c] :
        o \in ops,
        c \in InRange(f) \cup {Coordinate(f.Width, 0), Coordinate(0, -1)}}

\* A *Field as NewField returns it, for every valid configuration and every
\* choice of mines.
InitField ==
  /\ \E config \in {cfg \in Configs : validateConfig(cfg) = NoErr} :
       \E mines \in MinePicks(config, FALSE) : field = NewField(config, mines)
  /\ state = NoGame
  /\ quota = 0
  /\ opened = 0
  /\ ret = FieldReturn(NoOp, NoResult, NoErr)

\* f.Open(coord)
CallOpen(coord) ==
  /\ ~Panicked
  /\ LET r == FieldOpen(field, coord)
     IN /\ field' = r.f
        /\ ret' = FieldReturn(Open, r.result, r.err)
  /\ UNCHANGED <<state, quota, opened>>

\* f.Flag(coord)
CallFlag(coord) ==
  /\ ~Panicked
  /\ LET r == FieldFlag(field, coord)
     IN /\ field' = r.f
        /\ ret' = FieldReturn(Flag, r.result, r.err)
  /\ UNCHANGED <<state, quota, opened>>

\* f.Unflag(coord)
CallUnflag(coord) ==
  /\ ~Panicked
  /\ LET r == FieldUnflag(field, coord)
     IN /\ field' = r.f
        /\ ret' = FieldReturn(Unflag, r.result, r.err)
  /\ UNCHANGED <<state, quota, opened>>

NextField ==
  \/ \E p \in FieldInputs(field) : p.op = Open /\ CallOpen(p.coord)
  \/ \E p \in FieldInputs(field) : p.op = Flag /\ CallFlag(p.coord)
  \/ \E p \in FieldInputs(field) : p.op = Unflag /\ CallUnflag(p.coord)

SpecField == InitField /\ [][NextField]_vars

\* ------------------------------------------------------------- properties

CellAt(f, c) == f.Cells[c.Y][c.X]

OpenedCells(f) == {c \in InRange(f) : CellAt(f, c).state = Opened}
FlaggedCells(f) == {c \in InRange(f) : CellAt(f, c).state = Flagged}
ExplodedCells(f) == {c \in InRange(f) : CellAt(f, c).state = Exploded}
SafeCells(f) == {c \in InRange(f) : ~CellAt(f, c).mine}

\* The cells of f that share an edge or a corner with c.
Adjacent(f, c) ==
  {d \in InRange(f) :
     d # c /\ d.X - c.X \in {-1, 0, 1} /\ d.Y - c.Y \in {-1, 0, 1}}

\* The reference flood fill: the least set that holds S and every Closed cell
\* adjacent to one of its cells with a neighbour count of 0.
RECURSIVE FloodFill(_, _)
FloodFill(f, S) ==
  LET T == S \cup {d \in InRange(f) :
                     /\ CellAt(f, d).state = Closed
                     /\ \E s \in S : CellAt(f, s).surroundingCnt = 0
                                     /\ d \in Adjacent(f, s)}
  IN IF T = S THEN S ELSE FloodFill(f, T)

\* f with the cells of S Opened.
WithOpened(f, S) ==
  [f EXCEPT !.Cells = [y \in DOMAIN f.Cells |->
                         [x \in DOMAIN f.Cells[y] |->
                            IF Coordinate(x, y) \in S
                              THEN [f.Cells[y][x] EXCEPT !.state = Opened]
                              ELSE f.Cells[y][x]]]]

\* C1: in every state of a game, opened equals the number of Opened cells.
C1_OpenedCountsOpenedCells ==
  state # NoGame => opened = Cardinality(OpenedCells(field))

\* C2: whenever Operate has returned and every cell without a mine is Opened,
\* the game is Cleared.
C2_AllSafeCellsOpenedIsCleared ==
  (state # NoGame /\ ret.call = "Operate" /\ ~Panicked
     /\ SafeCells(field) \subseteq OpenedCells(field))
  => state = Cleared

\* C3: a Cleared game has opened = quota, every cell without a mine Opened
\* and no cell Exploded.
C3_ClearedNotEarly ==
  state = Cleared =>
    /\ opened = quota
    /\ SafeCells(field) \subseteq OpenedCells(field)
    /\ ExplodedCells(field) = {}

\* A game won by more than one Open.
C3_Witness ==
  /\ state = Cleared
  /\ ret.op = Open
  /\ ret.err = NoErr
  /\ Cardinality(OpenedCells(field)) >= 2

\* C4: Open on a Closed cell with a mine, in a game InProgress, makes exactly
\* that cell Exploded, keeps opened and returns Lost without an error.
C4_OpenMineExplodesOnlyThatCell ==
  [][\A c \in InRange(field) :
       (/\ state = InProgress
        /\ CellAt(field, c).state = Closed
        /\ CellAt(field, c).mine
        /\ ret'.op = Open
        /\ Operate([op |-> Open, coord |-> c]))
       => /\ field' = [field EXCEPT !.Cells[c.Y][c.X].state = Exploded]
          /\ opened' = opened
          /\ state' = Lost
          /\ ret'.state = Lost
          /\ ret'.err = NoErr]_vars

\* A game lost on a mine whose neighbour count is 0, next to a cell still Closed.
C4_Witness ==
  /\ state = Lost
  /\ ret.op = Open
  /\ ret.state = Lost
  /\ ret.err = NoErr
  /\ \E c \in ExplodedCells(field) :
       /\ CellAt(field, c).surroundingCnt = 0
       /\ \E d \in Adjacent(field, c) : CellAt(field, d).state = Closed

\* C5: every Operate on a Cleared or Lost game returns that state with
\* ErrOperatingFinishedGame, does not call ParseInput and changes nothing.
C5_FinishedGameRejectsOperate ==
  [][(state \in {Cleared, Lost} /\ ret'.call = "Operate")
     => /\ ret'.state = state
        /\ ret'.err = ErrOperatingFinishedGame
        /\ ~ret'.parsed
        /\ UNCHANGED <<field, state, quota, opened>>]_vars

\* A Lost game that was operated on again.
C5_Witness ==
  /\ state = Lost
  /\ ret.call = "Operate"
  /\ ret.err = ErrOperatingFinishedGame
  /\ ret.state = Lost
  /\ ~ret.parsed

\* C6: an Operate call changes the game's state only from InProgress to
\* Cleared or from InProgress to Lost.
C6_OnlyInProgressToTerminal ==
  [][(ret'.call = "Operate" /\ state' # state)
     => (state = InProgress /\ state' \in {Cleared, Lost})]_vars

\* A Cleared game that was operated on again and stayed Cleared.
C6_Witness ==
  /\ state = Cleared
  /\ ret.call = "Operate"
  /\ ret.err = ErrOperatingFinishedGame

\* C7: Open, Flag and Unflag on a coordinate outside the field, a negative
\* one included, return ErrCoordinateOutOfRange and change no cell.
C7_OutOfRangeIsAnError ==
  [][\A o \in OpType, c \in OutOfRange(field) :
       (state = InProgress /\ Operate([op |-> o, coord |-> c]))
       => (ret'.err = ErrCoordinateOutOfRange /\ field' = field)]_vars

\* C8: a successful Open of a Closed cell without a mine opens exactly the
\* cells of the reference flood fill and changes no other cell.
C8_OpenIsTheReferenceFloodFill ==
  [][\A c \in InRange(field) :
       (/\ state = InProgress
        /\ CellAt(field, c).state = Closed
        /\ ~CellAt(field, c).mine
        /\ Operate([op |-> Open, coord |-> c]))
       => field' = WithOpened(field, FloodFill(field, {c}))]_vars

\* C9: no Open changes a cell that is Flagged, and a Flagged cell changes its
\* state only by Unflag on its own coordinate.
C9_FlaggedCellOnlyChangedByUnflag ==
  [][/\ (ret'.call = "Operate" /\ ret'.op = Open)
          => \A c \in FlaggedCells(field) : field'.Cells[c.Y][c.X] = CellAt(field, c)
     /\ \A c \in FlaggedCells(field) :
          field'.Cells[c.Y][c.X].state # Flagged
          => Operate([op |-> Unflag, coord |-> c])]_vars

\* The one successful Open of the game spread from a cell with a neighbour
\* count of 0 that is adjacent to a Flagged cell, which stayed Flagged.
C9_Witness ==
  /\ ret.op = Open
  /\ ret.err = NoErr
  /\ opened = 1
  /\ Cardinality(OpenedCells(field)) >= 2
  /\ \E c \in FlaggedCells(field) :
       \E d \in Adjacent(field, c) :
         CellAt(field, d).state = Opened /\ CellAt(field, d).surroundingCnt = 0

\* C10: when ParseInput returns an error, Operate returns an error with the
\* unchanged state and changes neither the game nor the field.
C10_ParseErrorChangesNothing ==
  [][(state = InProgress /\ Operate([op |-> NoOp, coord |-> NoCoord]))
     => /\ ret'.err = ErrFailedToParseInput
        /\ ret'.state = state
        /\ UNCHANGED <<field, state, quota, opened>>]_vars

\* A parse error in the middle of a game: some cell is Opened, one is Flagged.
C10_Witness ==
  /\ state = InProgress
  /\ ret.parsed
  /\ ret.op = NoOp
  /\ ret.err = ErrFailedToParseInput
  /\ OpenedCells(field) # {}
  /\ FlaggedCells(field) # {}

\* The coordinates the bounds check of Field.Open, Flag and Unflag rejects.
Rejected(f) == {c \in OutOfRange(f) : c.X >= f.Width \/ c.Y >= f.Height}

\* The error of an illegal transition: operation o on a cell in state s.
IllegalTransition(o, s) ==
  IF o = Open
    THEN (IF s = Opened THEN ErrOpeningOpenedCell
          ELSE IF s = Flagged THEN ErrOpeningFlaggedCell
          ELSE IF s = Exploded THEN ErrOpeningExplodedCell
          ELSE NoErr)
  ELSE IF o = Flag
    THEN (IF s = Opened THEN ErrFlaggingOpenedCell
          ELSE IF s = Flagged THEN ErrFlaggingFlaggedCell
          ELSE IF s = Exploded THEN ErrFlaggingExplodedCell
          ELSE NoErr)
  ELSE (IF s # Flagged THEN ErrUnflaggingNonFlaggedCell ELSE NoErr)

\* The error the Field operation o returns for c, NoErr when it returns none.
FieldError(f, o, c) ==
  IF c.X >= f.Width \/ c.Y >= f.Height THEN ErrCoordinateOutOfRange
  ELSE IllegalTransition(o, CellAt(f, c).state)

C12_FlagUnflagTouchOneCellOnly ==
  [][(ret'.call = "Operate" /\ ret'.op \in {Flag, Unflag})
     => /\ UNCHANGED <<state, quota, opened>>
        /\ \/ field' = field
           \/ \A c \in InRange(field) \cup OutOfRange(field) :
                \/ /\ c \in InRange(field)
                   /\ \E s \in CellState :
                        field' = [field EXCEPT !.Cells[c.Y][c.X].state = s]
                \/ ~Operate([op |-> ret'.op, coord |-> c])]_vars

\* A flag was taken off again in a game with an Opened cell.
C12_Witness ==
  /\ state = InProgress
  /\ ret.op = Unflag
  /\ ret.err = NoErr
  /\ opened >= 1
  /\ FlaggedCells(field) = {}

\* C13: cell.open makes a Closed cell with a mine Exploded and one without a
\* mine Opened, returning the new state; on an Opened, Flagged or Exploded
\* cell it returns the matching ErrOpening...Cell, no result, and leaves the
\* cell as it is.
C13_CellOpenTable ==
  \A c \in InRange(field) :
    LET cell == CellAt(field, c)
        r == cellOpen(cell)
    IN CASE cell.state = Closed /\ cell.mine ->
              /\ r.cell = [cell EXCEPT !.state = Exploded]
              /\ r.result = Exploded
              /\ r.err = NoErr
         [] cell.state = Closed /\ ~cell.mine ->
              /\ r.cell = [cell EXCEPT !.state = Opened]
              /\ r.result = Opened
              /\ r.err = NoErr
         [] cell.state = Opened ->
              r = [cell |-> cell, result |-> NoResult, err |-> ErrOpeningOpenedCell]
         [] cell.state = Flagged ->
              r = [cell |-> cell, result |-> NoResult, err |-> ErrOpeningFlaggedCell]
         [] cell.state = Exploded ->
              r = [cell |-> cell, result |-> NoResult, err |-> ErrOpeningExplodedCell]

\* Open was refused on the Exploded cell of a field that also has an Opened
\* and a Flagged cell.
C13_Witness ==
  /\ ret.call = "Field"
  /\ ret.op = Open
  /\ ret.err = ErrOpeningExplodedCell
  /\ ret.result = NoResult
  /\ OpenedCells(field) # {}
  /\ FlaggedCells(field) # {}

\* C14: cell.flag makes a Closed cell Flagged and returns the new state; on
\* an Opened, Flagged or Exploded cell it returns the matching
\* ErrFlagging...Cell, no result, and leaves the cell as it is.
C14_CellFlagTable ==
  \A c \in InRange(field) :
    LET cell == CellAt(field, c)
        r == cellFlag(cell)
    IN CASE cell.state = Closed ->
              /\ r.cell = [cell EXCEPT !.state = Flagged]
              /\ r.result = Flagged
              /\ r.err = NoErr
         [] cell.state = Opened ->
              r = [cell |-> cell, result |-> NoResult, err |-> ErrFlaggingOpenedCell]
         [] cell.state = Flagged ->
              r = [cell |-> cell, result |-> NoResult, err |-> ErrFlaggingFlaggedCell]
         [] cell.state = Exploded ->
              r = [cell |-> cell, result |-> NoResult, err |-> ErrFlaggingExplodedCell]

\* Flag was refused on the Exploded cell of the field.
C14_Witness ==
  /\ ret.call = "Field"
  /\ ret.op = Flag
  /\ ret.err = ErrFlaggingExplodedCell
  /\ ret.result = NoResult
  /\ ExplodedCells(field) # {}

\* C15: cell.unflag makes a Flagged cell Closed and returns the new state
\* Closed; on a Closed, Opened or Exploded cell it returns
\* ErrUnflaggingNonFlaggedCell, no result, and leaves the cell as it is.
C15_CellUnflagTable ==
  \A c \in InRange(field) :
    LET cell == CellAt(field, c)
        r == cellUnflag(cell)
    IN IF cell.state = Flagged
         THEN /\ r.cell = [cell EXCEPT !.state = Closed]
              /\ r.result = Closed
              /\ r.err = NoErr
         ELSE r = [cell |-> cell, result |-> NoResult,
                   err |-> ErrUnflaggingNonFlaggedCell]

\* A flag was taken off: Unflag returned the new state Closed, and the field
\* has cells in the three states Unflag refuses.
C15_Witness ==
  /\ ret.call = "Field"
  /\ ret.op = Unflag
  /\ ret.result = Closed
  /\ ret.err = NoErr
  /\ OpenedCells(field) # {}
  /\ ExplodedCells(field) # {}
  /\ \E c \in InRange(field) : CellAt(field, c).state = Closed

\* C16: no Field.Open, Flag or Unflag, on whatever coordinate, changes a cell
\* that is Opened or Exploded; a Closed cell becomes Flagged only by Flag on
\* its coordinate, and a Flagged cell changes only to Closed and only by
\* Unflag on its coordinate.
C16_TerminalAndFlagCycle ==
  [][field' # field
     => \A c \in InRange(field) :
          LET old == CellAt(field, c)
              new == field'.Cells[c.Y][c.X]
          IN \/ new = old
             \/ /\ old.state = Closed
                /\ \/ new.state = Flagged /\ CallFlag(c)
                   \/ new.state \in {Opened, Exploded} /\ ret'.op = Open
             \/ /\ old.state = Flagged
                /\ new.state = Closed
                /\ CallUnflag(c)]_vars

\* A field with an Opened and an Exploded cell on which a flag was set and
\* taken off again, and then Open, Flag and Unflag were tried on.
C16_Witness ==
  /\ ret.call = "Field"
  /\ ret.op = Flag
  /\ ret.err = ErrFlaggingOpenedCell
  /\ OpenedCells(field) # {}
  /\ ExplodedCells(field) # {}
  /\ FlaggedCells(field) # {}

\* C17: on every Closed cell of the field, Field.Flag and then Field.Unflag
\* on its coordinate both succeed; the Flag changes only that cell, and the
\* Unflag gives back exactly the field before the Flag.
C17_FlagThenUnflagRestores ==
  \A c \in InRange(field) :
    CellAt(field, c).state = Closed
    => LET a == FieldFlag(field, c)
           b == FieldUnflag(a.f, c)
       IN /\ a.err = NoErr
          /\ a.result = Flagged
          /\ a.f = [field EXCEPT !.Cells[c.Y][c.X].state = Flagged]
          /\ b.err = NoErr
          /\ b.result = Closed
          /\ b.f = field

\* Unflag has just succeeded on the only flag of a field that has an Opened
\* cell: the flagged cell is Closed again.
C17_Witness ==
  /\ ret.call = "Field"
  /\ ret.op = Unflag
  /\ ret.err = NoErr
  /\ FlaggedCells(field) = {}
  /\ OpenedCells(field) # {}
  /\ ExplodedCells(field) = {}

\* C18: Restore of the bytes Save has written for a game reached by NewGame
\* and Operate succeeds and gives a game with the same state, quota, opened,
\* width and height and, at every coordinate, the same cell state, mine and
\* neighbour count.
C18_SaveRestoreRoundTrip ==
  [][ret'.call = "Restore"
     => /\ ret.call = "Save"
        /\ ret'.doc = Save(GameValue(state, quota, opened, field))
        /\ ret'.err = NoErr
        /\ UNCHANGED <<field, state, quota, opened>>]_vars

\* A Lost game with cells in all four states came back from its snapshot.
C18_Witness ==
  /\ ret.call = "Restore"
  /\ ret.err = NoErr
  /\ state = Lost
  /\ OpenedCells(field) # {}
  /\ FlaggedCells(field) # {}
  /\ ExplodedCells(field) # {}
  /\ \E c \in InRange(field) : CellAt(field, c).state = Closed

\* A cell object with a key missing or an unrecognized state name.
CellFault(c) ==
  \/ {"state", "has_mine", "surrounding_count"} \ DOMAIN c # {}
  \/ c.state \notin CellStateNames

\* A field object that fails its decode: a key is missing, or a cell of its
\* grid, which has no row and no entry more than declared, has a fault.
FieldFault(fd) ==
  \/ {"width", "height", "cells"} \ DOMAIN fd # {}
  \/ /\ Len(fd.cells) <= fd.height
     /\ \A i \in 1..Len(fd.cells) : Len(fd.cells[i]) <= fd.width
     /\ \E i \in 1..Len(fd.cells) :
          \E ii \in 1..Len(fd.cells[i]) : CellFault(fd.cells[i][ii])

\* A snapshot with a key missing, an unrecognized game state name or a field
\* that fails its decode.
SnapshotFault(doc) ==
  \/ {"state", "quota", "opened", "field"} \ DOMAIN doc # {}
  \/ doc.state \notin GameStateNames
  \/ FieldFault(doc.field)

C20_BothPathsEstablishInvariants ==
  (ret.call \in {"NewGame", "Restore"} /\ ret.err = NoErr)
  => /\ quota = Cardinality(SafeCells(field))
     /\ 0 <= opened
     /\ opened <= quota

\* The number of cell objects without a mine in the grid of the field object fd.
DocSafeCells(fd) ==
  Cardinality({c \in (1..Len(fd.cells)) \X (1..fd.width) :
                 c[2] <= Len(fd.cells[c[1]]) /\ ~fd.cells[c[1]][c[2]].has_mine})

\* C20 amended: every Game returned without an error by NewGame has quota
\* equal to the number of its cells without a mine and opened = 0; every Game
\* returned without an error by Restore has the quota, the opened and the
\* mines of its snapshot, unchecked.
C20_NewGameEstablishesRestoreCopies ==
  /\ (ret.call = "NewGame" /\ ret.err = NoErr)
     => /\ quota = Cardinality(SafeCells(field))
        /\ opened = 0
        /\ opened <= quota
  /\ (ret.call = "Restore" /\ ret.err = NoErr)
     => /\ quota = ret.doc.quota
        /\ opened = ret.doc.opened
        /\ Cardinality(SafeCells(field)) = DocSafeCells(ret.doc.field)

\* Restore returned a game InProgress with more opened than its quota, and
\* a quota that is not the number of its cells without a mine.
C20_Witness ==
  /\ ret.call = "Restore"
  /\ ret.err = NoErr
  /\ state = InProgress
  /\ opened > quota
  /\ quota # Cardinality(SafeCells(field))

\* ------------------------------------------------- NewField called directly

\* The largest mine count NewField is tried with.
MaxFieldMines == 3

\* The configurations NewField is tried with, invalid ones included.
FieldConfigs ==
  {cfg \in [Width : -1..MaxWidth, Height : -1..MaxHeight,
            MineCnt : -1..MaxFieldMines] :
     cfg.Width * cfg.Height <= MaxCells}

ErrInvalidConfig == "invalild config is given"

\* The last call was NewField(config) and it returned the error err beside the
\* *Field that field holds, NilField for nil.
NewFieldReturn(config, err) ==
  [call |-> "NewField", config |-> config, err |-> err]

\* NewField(config), mines being the mine positions rand.Perm picks.
CallNewField(config, mines) ==
  /\ IF validateConfig(config) # NoErr
       THEN /\ field' = NilField
            /\ ret' = NewFieldReturn(config, ErrInvalidConfig)
       ELSE /\ field' = NewField(config, mines)
            /\ ret' = NewFieldReturn(config, NoErr)
  /\ UNCHANGED <<state, quota, opened>>

NextNewField ==
  \E config \in FieldConfigs :
    \E mines \in MinePicks(config, FALSE) : CallNewField(config, mines)

SpecNewField == Init /\ [][NextNewField]_vars

\* The cells of f that have a mine.
MinedCells(f) == {c \in InRange(f) : CellAt(f, c).mine}

\* A configuration is valid: positive sides and 0 < MineCnt < Width * Height.
ValidConfig(cfg) ==
  /\ cfg.Width > 0
  /\ cfg.Height > 0
  /\ 0 < cfg.MineCnt
  /\ cfg.MineCnt < cfg.Width * cfg.Height

\* C21: for every valid configuration NewField returns a field of Height rows
\* of Width cells each, every cell Closed, and exactly MineCnt cells mined.
C21_NewFieldShapeClosedMineCount ==
  (ret.call = "NewField" /\ ValidConfig(ret.config))
    => /\ field.Width = ret.config.Width
       /\ field.Height = ret.config.Height
       /\ DOMAIN field.Cells = 0..(ret.config.Height - 1)
       /\ \A y \in DOMAIN field.Cells :
            DOMAIN field.Cells[y] = 0..(ret.config.Width - 1)
       /\ \A c \in InRange(field) : CellAt(field, c).state = Closed
       /\ Cardinality(MinedCells(field)) = ret.config.MineCnt

\* NewField has returned a field of two rows and three columns with two mines,
\* one of them in the cell of index 0.
C21_Witness ==
  /\ ret.call = "NewField"
  /\ ret.config = [Width |-> 3, Height |-> 2, MineCnt |-> 2]
  /\ Coordinate(0, 0) \in MinedCells(field)
  /\ Coordinate(2, 1) \in MinedCells(field)

\* C22: in every field NewField returns, each cell's neighbour count is the
\* number of mined cells among the cells adjacent to it.
C22_NeighbourCountIsAdjacentMines ==
  ret.call = "NewField"
    => \A c \in InRange(field) :
         CellAt(field, c).surroundingCnt
           = Cardinality(Adjacent(field, c) \cap MinedCells(field))

\* NewField has returned a field where the cell (1, 0) counts three mines, two
\* of them diagonally below it and one of those in column 0.
C22_Witness ==
  /\ ret.call = "NewField"
  /\ ret.err = NoErr
  /\ field.Width = 3 /\ field.Height = 2
  /\ CellAt(field, Coordinate(1, 0)).surroundingCnt = 3
  /\ {Coordinate(0, 1), Coordinate(2, 1)} \subseteq MinedCells(field)

\* C23: NewField returns an error and no field exactly when Width <= 0, or
\* Height <= 0, or MineCnt <= 0, or MineCnt >= Width * Height, and a field and
\* no error for every other configuration.
C23_NewFieldErrorIffInvalidConfig ==
  ret.call = "NewField"
    => LET cfg == ret.config
           invalid == \/ cfg.Width <= 0
                      \/ cfg.Height <= 0
                      \/ cfg.MineCnt <= 0
                      \/ cfg.MineCnt >= cfg.Width * cfg.Height
       IN /\ (ret.err # NoErr) <=> invalid
          /\ (field = NilField) <=> invalid

\* NewField has refused a configuration with as many mines as cells.
C23_Witness ==
  /\ ret.call = "NewField"
  /\ ret.err = ErrInvalidConfig
  /\ field = NilField
  /\ ret.config.Width > 0
  /\ ret.config.Height > 0
  /\ ret.config.MineCnt = ret.config.Width * ret.config.Height

\* C24: NewGame on a valid configuration returns a game that is InProgress
\* with opened 0, quota Width * Height - MineCnt and a UI, the supplied one or
\* else the default one; on an invalid configuration or a failing option it
\* returns an error and no game.
C24_NewGameResult ==
  [][ret'.call = "NewGame"
     => \A config \in Configs, opt \in GameOptions :
          \A mines \in MinePicks(config, opt = FailingOption) :
            \/ IF ValidConfig(config) /\ opt # FailingOption
                 THEN /\ ret'.err = NoErr
                      /\ ret'.state = InProgress
                      /\ state' = InProgress
                      /\ opened' = 0
                      /\ quota' = config.Width * config.Height - config.MineCnt
                      /\ field'.Width = config.Width
                      /\ field'.Height = config.Height
                      /\ ret'.ui = IF opt = WithUI THEN SuppliedUI ELSE DefaultUI
                 ELSE /\ ret'.err # NoErr
                      /\ ret'.ui = NilUI
                      /\ state' = NoGame
                      /\ field' = NilField
            \/ ~NewGame(config, opt, mines)]_vars

\* NewGame without options has returned a game on two rows of three cells:
\* five cells to open, none opened, the default UI.
C24_Witness ==
  /\ ret.call = "NewGame"
  /\ ret.err = NoErr
  /\ ret.ui = DefaultUI
  /\ state = InProgress
  /\ opened = 0
  /\ quota = 5
  /\ field.Width = 3 /\ field.Height = 2

\* ------------------------------------------- games with more than one mine

\* The most cells and the most mines of the fields of these games.
MaxDenseCells == 6
MaxDenseMines == 2

\* The valid configurations of these games.
DenseConfigs ==
  {cfg \in [Width : 1..MaxWidth, Height : 1..MaxHeight,
            MineCnt : 1..MaxDenseMines] :
     /\ cfg.Width * cfg.Height <= MaxDenseCells
     /\ validateConfig(cfg) = NoErr}

NextDense ==
  \/ /\ state = NoGame
     /\ \E config \in DenseConfigs :
          \E mines \in MinePicks(config, FALSE) :
            NewGame(config, NoOption, mines)
  \/ /\ state # NoGame
     /\ \E p \in ParseResults(field) : Operate(p)

SpecDense == Init /\ [][NextDense]_vars

\* C26: in every state of a game driven through Operate, the game is Lost
\* exactly when some cell is Exploded, and at most one cell is Exploded.
C26_LostIffOneExploded ==
  state # NoGame
    => /\ (state = Lost) <=> (ExplodedCells(field) # {})
       /\ Cardinality(ExplodedCells(field)) <= 1

\* A game on a field with two mines is Lost: one mine is Exploded, the other
\* is still Closed, and the Open that was tried on the finished game afterwards
\* has been refused.
C26_Witness ==
  /\ state = Lost
  /\ ret.call = "Operate"
  /\ ret.err = ErrOperatingFinishedGame
  /\ Cardinality(MinedCells(field)) = 2
  /\ \E c \in MinedCells(field) : CellAt(field, c).state = Exploded
  /\ \E c \in MinedCells(field) : CellAt(field, c).state = Closed

\* C27: no Operate call, whatever it does to the field, changes a cell's mine
\* or neighbour count, the field's width or height, or the game's quota.
C27_ConstructionDataNeverWritten ==
  [][state # NoGame
     => /\ quota' = quota
        /\ \/ field' = field
           \/ /\ field'.Width = field.Width
              /\ field'.Height = field.Height
              /\ DOMAIN field'.Cells = DOMAIN field.Cells
              /\ \A c \in InRange(field) :
                   /\ CellAt(field', c).mine = CellAt(field, c).mine
                   /\ CellAt(field', c).surroundingCnt
                        = CellAt(field, c).surroundingCnt]_vars

\* After Operate calls that flagged a cell, opened cells and at last exploded
\* a mine, the exploded cell still has its mine and the quota is still the
\* number of cells without one.
C27_Witness ==
  /\ state = Lost
  /\ FlaggedCells(field) # {}
  /\ OpenedCells(field) # {}
  /\ \E c \in ExplodedCells(field) : CellAt(field, c).mine
  /\ quota = Cardinality(SafeCells(field))

\* C29: for every cell c of a field, getSurroundingCoordinates(c) lists
\* exactly the cells adjacent to c, each once and never c itself; for a cell
\* in column 1 that includes its diagonal neighbours in column 0.
C29_SurroundingsAreAdjacentCells ==
  \A c \in InRange(field) :
    LET coords == getSurroundingCoordinates(field, c)
    IN /\ {coords[i] : i \in DOMAIN coords} = Adjacent(field, c)
       /\ \A i, j \in DOMAIN coords : coords[i] = coords[j] => i = j

\* ------------------------------------- one Field.Open call, step by step

\* The most cells of the fields Field.Open is followed on.
MaxOpenCells == 6

\* An activation of Field.Open that has reached its for loop: the slice
\* getSurroundingCoordinates returned and the index of the next element.
Frame(coords, i) == [coords |-> coords, i |-> i]

\* The call stack of the Field.Open in progress, innermost activation first
\* (<<>> when no call is in progress), and the coordinates on which cell.open
\* has succeeded since the outermost call began.
OpenReturn(stack, trace) == [call |-> "Open", stack |-> stack, trace |-> trace]

\* f with the state of each cell c replaced by st[c].
WithStates(f, st) ==
  [f EXCEPT !.Cells = [y \in DOMAIN f.Cells |->
                         [x \in DOMAIN f.Cells[y] |->
                            [f.Cells[y][x] EXCEPT !.state = st[Coordinate(x, y)]]]]]

\* The sizes and mine counts of the fields, a field without a mine included.
OpenConfigs ==
  {cfg \in [Width : 1..MaxWidth, Height : 1..MaxHeight, MineCnt : 0..MaxMineCnt] :
     /\ cfg.Width * cfg.Height <= MaxOpenCells
     /\ cfg.MineCnt < cfg.Width * cfg.Height}

\* Any *Field: mines and neighbour counts as NewField lays them out, every
\* cell in any state.
InitOpen ==
  /\ \E cfg \in OpenConfigs :
       \E mines \in {m \in SUBSET (0..(cfg.Width * cfg.Height - 1)) :
                       Cardinality(m) = cfg.MineCnt} :
         \E st \in [InRange(NewField(cfg, mines)) -> CellState] :
           field = WithStates(NewField(cfg, mines), st)
  /\ state = NoGame
  /\ quota = 0
  /\ opened = 0
  /\ ret = OpenReturn(<<>>, <<>>)

\* An activation of Field.Open(coord) from its first line to its return or to
\* the start of its for loop: the field, the stack and the trace afterwards.
enterOpen(f, coord, stack, trace) ==
  IF coord.X + 1 > f.Width \/ coord.Y + 1 > f.Height
    THEN [f |-> f, stack |-> stack, trace |-> trace]
  ELSE
    LET o == cellOpen(f.Cells[coord.Y][coord.X])
        f1 == [f EXCEPT !.Cells[coord.Y][coord.X] = o.cell]
    IN
    IF o.err # NoErr
      THEN [f |-> f, stack |-> stack, trace |-> trace]
    ELSE IF o.result = Exploded
      THEN [f |-> f1, stack |-> stack, trace |-> Append(trace, coord)]
    ELSE IF o.cell.surroundingCnt = 0
      THEN [f |-> f1,
            stack |-> <<Frame(getSurroundingCoordinates(f1, coord), 1)>> \o stack,
            trace |-> Append(trace, coord)]
    ELSE [f |-> f1, stack |-> stack, trace |-> Append(trace, coord)]

\* A caller calls f.Open(coord).
BeginOpen(coord) ==
  /\ ret.stack = <<>>
  /\ LET e == enterOpen(field, coord, <<>>, <<>>)
     IN /\ field' = e.f
        /\ ret' = OpenReturn(e.stack, e.trace)
  /\ UNCHANGED <<state, quota, opened>>

\* One iteration of the for loop of the innermost activation: f.Open(c) on a
\* Closed neighbour, nothing on any other.
LoopOpen ==
  /\ ret.stack # <<>>
  /\ LET top == Head(ret.stack) IN
     /\ top.i <= Len(top.coords)
     /\ LET c == top.coords[top.i]
            stack == <<Frame(top.coords, top.i + 1)>> \o Tail(ret.stack)
        IN IF field.Cells[c.Y][c.X].state = Closed
             THEN LET e == enterOpen(field, c, stack, ret.trace)
                  IN /\ field' = e.f
                     /\ ret' = OpenReturn(e.stack, e.trace)
             ELSE /\ field' = field
                  /\ ret' = OpenReturn(stack, ret.trace)
  /\ UNCHANGED <<state, quota, opened>>

\* The loop of the innermost activation is over: it returns.
ReturnOpen ==
  /\ ret.stack # <<>>
  /\ Head(ret.stack).i > Len(Head(ret.stack).coords)
  /\ ret' = OpenReturn(Tail(ret.stack), ret.trace)
  /\ UNCHANGED <<field, state, quota, opened>>

NextOpen ==
  \/ \E coord \in InRange(field) \cup {Coordinate(field.Width, 0)} :
       BeginOpen(coord)
  \/ LoopOpen
  \/ ReturnOpen

\* A call in progress takes its next step.
SpecOpen ==
  InitOpen /\ [][NextOpen]_vars /\ WF_vars(LoopOpen) /\ WF_vars(ReturnOpen)

\* C25: every Field.Open call returns, on every field and whatever the states
\* of its cells; within one call no cell is opened twice, so a call opens at
\* most Width * Height cells, and it nests at most that deep.
C25_OpenTerminatesEachCellOnce ==
  /\ (ret.stack # <<>>) ~> (ret.stack = <<>>)
  /\ [](/\ \A i, j \in DOMAIN ret.trace : ret.trace[i] = ret.trace[j] => i = j
        /\ Len(ret.trace) <= field.Width * field.Height
        /\ Len(ret.stack) <= field.Width * field.Height)

\* A call on a field without a mine has returned after opening every cell of
\* two rows and three columns.
C25_Witness ==
  /\ ret.stack = <<>>
  /\ Len(ret.trace) = 6
  /\ field.Width = 3 /\ field.Height = 2
  /\ \A c \in InRange(field) : CellAt(field, c).state = Opened

\* C30: Field.Open returns an error only when the coordinate is out of range
\* or the open() of the addressed cell fails, and then that error; otherwise
\* it returns no error and a result whose NewState is the state the addressed
\* cell has after the call, whatever the cascade meets.
C30_OpenErrorOnlyFromAddressedCell ==
  [](\A c \in InRange(field) \cup Rejected(field) :
       LET r == FieldOpen(field, c)
           o == cellOpen(CellAt(field, c))
       IN IF c \notin InRange(field)
            THEN r.err = ErrCoordinateOutOfRange /\ r.result = NoResult
          ELSE IF o.err # NoErr
            THEN r.err = o.err /\ r.result = NoResult
          ELSE /\ r.err = NoErr
               /\ r.result = CellAt(r.f, c).state
               /\ r.result = o.result)

\* An Open has returned Opened and no error although its cascade, which opened
\* other cells, met a Flagged neighbour.
C30_Witness ==
  /\ ret.call = "Field"
  /\ ret.op = Open
  /\ ret.err = NoErr
  /\ ret.result = Opened
  /\ \E c \in OpenedCells(field) :
       /\ CellAt(field, c).surroundingCnt = 0
       /\ \E d \in Adjacent(field, c) : CellAt(field, d).state = Flagged
       /\ \E d \in Adjacent(field, c) : CellAt(field, d).state = Opened

\* ------------------------------------------------------------------ ui.go

\* A Go string is the sequence of its characters. A *Coordinate is <<>> for
\* nil and <<c>> for a pointer to c.

ErrInvalidInput == "invalid input is given"
ErrSyntax == "invalid syntax"

\* unicode.IsSpace on the characters used here.
IsSpace(ch) == ch \in {" ", "\t", "\n"}

\* strings.Fields(str): the maximal runs of characters that are not spaces,
\* read from the i-th character on with cur the run in progress.
RECURSIVE splitFields(_, _, _, _)
splitFields(str, i, cur, acc) ==
  LET done == IF cur = <<>> THEN acc ELSE Append(acc, cur)
  IN IF i > Len(str) THEN done
     ELSE IF IsSpace(str[i]) THEN splitFields(str, i + 1, <<>>, done)
     ELSE splitFields(str, i + 1, Append(cur, str[i]), acc)

Fields(str) == splitFields(str, 1, <<>>, <<>>)

DecimalDigits == <<"0", "1", "2", "3", "4", "5", "6", "7", "8", "9">>

IsDigit(ch) == \E i \in DOMAIN DecimalDigits : DecimalDigits[i] = ch

DigitValue(ch) == (CHOOSE i \in DOMAIN DecimalDigits : DecimalDigits[i] = ch) - 1

RECURSIVE DecimalValue(_)
DecimalValue(digits) ==
  IF digits = <<>> THEN 0
  ELSE 10 * DecimalValue(SubSeq(digits, 1, Len(digits) - 1))
       + DigitValue(digits[Len(digits)])

\* strconv.Atoi(tok): an optional sign and at least one decimal digit.
Atoi(tok) ==
  LET signed == tok # <<>> /\ tok[1] \in {"+", "-"}
      digits == IF signed THEN Tail(tok) ELSE tok
  IN IF digits = <<>> \/ \E i \in DOMAIN digits : ~IsDigit(digits[i])
       THEN [n |-> 0, err |-> ErrSyntax]
     ELSE IF tok[1] = "-"
       THEN [n |-> 0 - DecimalValue(digits), err |-> NoErr]
     ELSE [n |-> DecimalValue(digits), err |-> NoErr]

\* strconv.Itoa(n) for n >= 0, as fmt.Sprintf("%d", n) writes it.
RECURSIVE Itoa(_)
Itoa(n) ==
  IF n < 10 THEN <<DecimalDigits[n + 1]>>
  ELSE Itoa(n \div 10) \o <<DecimalDigits[(n % 10) + 1]>>

UpperCase ==
  <<"A", "B", "C", "D", "E", "F", "G", "H", "I", "J", "K", "L", "M",
    "N", "O", "P", "Q", "R", "S", "T", "U", "V", "W", "X", "Y", "Z">>

\* candidates of initSymbols
candidates ==
  <<"a", "b", "c", "d", "e", "f", "g", "h", "i", "j", "k", "l", "m",
    "n", "o", "p", "q", "r", "s", "t", "u", "v", "w", "x", "y", "z">>

candidatesN == Len(candidates)

\* strings.ToLower(str)
ToLower(str) ==
  [i \in DOMAIN str |->
     IF \E k \in DOMAIN UpperCase : UpperCase[k] = str[i]
       THEN candidates[CHOOSE k \in DOMAIN UpperCase : UpperCase[k] = str[i]]
       ELSE str[i]]

\* A defaultUI whose tables are filled when it is made.
defaultUI_prefilled == [xSymbols |-> <<1, 2>>, ySymbols |-> <<<<"a">>>>]

\* A &defaultUI{}: both tables nil.
defaultUI == [xSymbols |-> <<>>, ySymbols |-> <<>>]

\* The inner loop of initSymbols: the symbol s of a row grown to the left
\* while n > 0.
RECURSIVE ySymbol(_, _)
ySymbol(n, s) ==
  IF n > 0
    THEN ySymbol((n - 1) \div candidatesN,
                 <<candidates[((n - 1) % candidatesN) + 1]>> \o s)
    ELSE s

\* initSymbols(width, height): the element of Go index i is at i + 1.
initSymbols(width, height) ==
  [xSymbols |-> [i \in 1..width |-> i],
   ySymbols |-> [i \in 1..height |-> ySymbol(i, <<>>)]]

\* dispState(s)
dispState(s) ==
  CASE s = Closed -> " "
    [] s = Opened -> "-"
    [] s = Flagged -> "F"
    [] s = Exploded -> "X"

\* The strings of the sequence strs one after the other.
RECURSIVE Concat(_)
Concat(strs) ==
  IF strs = <<>> THEN <<>> ELSE Head(strs) \o Concat(Tail(strs))

\* defaultUI.Render(field): the UI afterwards, the string and a panic if any.
Render(ui, f) ==
  LET r == IF Len(ui.xSymbols) = 0 \/ Len(ui.ySymbols) = 0
             THEN initSymbols(f.Width, f.Height)
             ELSE ui
  IN IF Len(r.ySymbols) < f.Height
       \* r.ySymbols[len(r.ySymbols)-1] of an empty table, r.ySymbols[i] past its end
       THEN [ui |-> r, str |-> <<>>, err |-> PanicIndexOutOfRange]
     ELSE
       LET yWidth == Len(r.ySymbols[Len(r.ySymbols)])
           header == [i \in 1..yWidth |-> " "]
                     \o Concat([i \in DOMAIN r.xSymbols |->
                                  <<" ">> \o Itoa(r.xSymbols[i])])
                     \o <<"\n">>
           row(i) == r.ySymbols[i + 1]
                     \o Concat([ii \in 1..f.Width |->
                                  <<"|", dispState(f.Cells[i][ii - 1].state)>>])
                     \o (IF i + 1 < f.Height THEN <<"\n">> ELSE <<>>)
       IN [ui |-> r,
           str |-> header \o Concat([i \in 1..f.Height |-> row(i - 1)]),
           err |-> NoErr]

\* The largest element of a non-empty set of integers.
Last(S) == CHOOSE i \in S : \A j \in S : j <= i

\* defaultUI.ParseInput without strings.ToLower.
ParseInput_caseSensitive(ui, str) ==
  LET fields == Fields(str)
      fieldsCnt == Len(fields)
      invalid == [op |-> NoOp, coord |-> <<>>, err |-> ErrInvalidInput]
  IN
  IF fieldsCnt # 2 /\ fieldsCnt # 3 THEN invalid
  ELSE
    LET x == Atoi(fields[1])
        foundX == {i \in DOMAIN ui.xSymbols : x.n = ui.xSymbols[i]}
        foundY == {i \in DOMAIN ui.ySymbols : fields[2] = ui.ySymbols[i]}
    IN
    IF x.err # NoErr THEN invalid
    ELSE IF foundX = {} THEN invalid
    ELSE IF foundY = {} THEN invalid
    ELSE
      LET coord == <<Coordinate(Last(foundX) - 1, Last(foundY) - 1)>> IN
      IF fieldsCnt = 2 THEN [op |-> Open, coord |-> coord, err |-> NoErr]
      ELSE IF fields[3] \in {<<"f">>, <<"f", "l", "a", "g">>}
        THEN [op |-> Flag, coord |-> coord, err |-> NoErr]
      ELSE IF fields[3] \in {<<"u">>, <<"u", "n", "f", "l", "a", "g">>}
        THEN [op |-> Unflag, coord |-> coord, err |-> NoErr]
      ELSE invalid

\* defaultUI.ParseInput(str): the OpType, the *Coordinate and the error. The
\* loops over the tables keep the last element that matches.
ParseInput(ui, str) ==
  LET fields == Fields(str)
      fieldsCnt == Len(fields)
      invalid == [op |-> NoOp, coord |-> <<>>, err |-> ErrInvalidInput]
  IN
  IF fieldsCnt # 2 /\ fieldsCnt # 3 THEN invalid
  ELSE
    LET x == Atoi(fields[1])
        foundX == {i \in DOMAIN ui.xSymbols : x.n = ui.xSymbols[i]}
        foundY == {i \in DOMAIN ui.ySymbols : fields[2] = ui.ySymbols[i]}
    IN
    IF x.err # NoErr THEN invalid
    ELSE IF foundX = {} THEN invalid
    ELSE IF foundY = {} THEN invalid
    ELSE
      LET coord == <<Coordinate(Last(foundX) - 1, Last(foundY) - 1)>> IN
      IF fieldsCnt = 2 THEN [op |-> Open, coord |-> coord, err |-> NoErr]
      ELSE IF ToLower(fields[3]) \in {<<"f">>, <<"f", "l", "a", "g">>}
        THEN [op |-> Flag, coord |-> coord, err |-> NoErr]
      ELSE IF ToLower(fields[3]) \in {<<"u">>, <<"u", "n", "f", "l", "a", "g">>}
        THEN [op |-> Unflag, coord |-> coord, err |-> NoErr]
      ELSE invalid

\* --------------------------------------------- a defaultUI used on its own

\* What a user types, token by token, each token with what it stands for.
\* A first token: its text and the integer it writes, if it writes one.
ColumnTokens ==
  {[text |-> <<"1">>, numeric |-> TRUE, n |-> 1],
   [text |-> <<"2">>, numeric |-> TRUE, n |-> 2],
   [text |-> <<"3">>, numeric |-> TRUE, n |-> 3],
   [text |-> <<"4">>, numeric |-> TRUE, n |-> 4],
   [text |-> <<"5">>, numeric |-> TRUE, n |-> 5],
   [text |-> <<"0">>, numeric |-> TRUE, n |-> 0],
   [text |-> <<"1", "0">>, numeric |-> TRUE, n |-> 10],
   [text |-> <<"0", "2">>, numeric |-> TRUE, n |-> 2],
   [text |-> <<"+", "1">>, numeric |-> TRUE, n |-> 1],
   [text |-> <<"-", "1">>, numeric |-> TRUE, n |-> -1],
   [text |-> <<"a">>, numeric |-> FALSE, n |-> 0],
   [text |-> <<"1", "a">>, numeric |-> FALSE, n |-> 0],
   [text |-> <<"-">>, numeric |-> FALSE, n |-> 0]}

\* A second token: its text.
RowTokens ==
  {[text |-> <<"a">>], [text |-> <<"b">>], [text |-> <<"c">>],
   [text |-> <<"d">>], [text |-> <<"e">>], [text |-> <<"A">>],
   [text |-> <<"a", "a">>], [text |-> <<"1">>]}

\* A third token: its text and the operation it asks for, NoOp for none.
VerbTokens ==
  {[text |-> <<"f">>, op |-> Flag],
   [text |-> <<"F">>, op |-> Flag],
   [text |-> <<"f", "l", "a", "g">>, op |-> Flag],
   [text |-> <<"F", "L", "A", "G">>, op |-> Flag],
   [text |-> <<"F", "l", "a", "g">>, op |-> Flag],
   [text |-> <<"u">>, op |-> Unflag],
   [text |-> <<"U">>, op |-> Unflag],
   [text |-> <<"u", "n", "f", "l", "a", "g">>, op |-> Unflag],
   [text |-> <<"U", "N", "F", "L", "A", "G">>, op |-> Unflag],
   [text |-> <<"u", "n", "F", "l", "a", "g">>, op |-> Unflag],
   [text |-> <<"o">>, op |-> NoOp],
   [text |-> <<"f", "l">>, op |-> NoOp],
   [text |-> <<"f", "l", "a", "g", "s">>, op |-> NoOp],
   [text |-> <<"u", "n">>, op |-> NoOp],
   [text |-> <<"o", "p", "e", "n">>, op |-> NoOp],
   [text |-> <<"1">>, op |-> NoOp]}

\* The lines of zero to four tokens.
TokenLines ==
  {<<>>}
  \cup {<<x>> : x \in ColumnTokens}
  \cup {<<x, y>> : x \in ColumnTokens, y \in RowTokens}
  \cup {<<x, y, v>> : x \in ColumnTokens, y \in RowTokens, v \in VerbTokens}
  \cup {<<x, y, v, v>> : x \in ColumnTokens, y \in RowTokens,
                         v \in {w \in VerbTokens : Len(w.text) = 1}}

\* The ways a line is spaced: one space between tokens, or spaces around the
\* line and a tab and a space between tokens.
Spacings ==
  {[lead |-> <<>>, between |-> <<" ">>, trail |-> <<>>],
   [lead |-> <<" ">>, between |-> <<"\t", " ">>, trail |-> <<" ", "\n">>]}

\* The string of the token line written with the spacing sp.
Typed(line, sp) ==
  sp.lead
  \o Concat([i \in DOMAIN line |->
               (IF i > 1 THEN sp.between ELSE <<>>) \o line[i].text])
  \o sp.trail

\* The last call on the UI: the UI after it, the string it was given with the
\* tokens the string was typed from, or the string it returned, and the
\* OpType, *Coordinate and error it returned.
UIReturn(call, ui, line, str, op, coord, err) ==
  [call |-> call, ui |-> ui, line |-> line, str |-> str,
   op |-> op, coord |-> coord, err |-> err]

\* A &defaultUI{} and a field as NewField returns it, of every size; neither
\* Render nor ParseInput reads the mines, which are in the first cells.
InitUI ==
  /\ \E config \in {cfg \in Configs : validateConfig(cfg) = NoErr} :
       field = NewField(config, 0..(config.MineCnt - 1))
  /\ state = NoGame
  /\ quota = 0
  /\ opened = 0
  /\ ret = UIReturn("none", defaultUI, <<>>, <<>>, NoOp, <<>>, NoErr)

\* ui.Render(field)
CallRender ==
  /\ ret.err # PanicIndexOutOfRange
  /\ LET r == Render(ret.ui, field)
     IN ret' = UIReturn("Render", r.ui, <<>>, r.str, NoOp, <<>>, r.err)
  /\ UNCHANGED <<field, state, quota, opened>>

\* ui.ParseInput(str), str being line typed with the spacing sp. ParseInput
\* leaves the UI as it is, so each string is tried after a call of another
\* method only.
CallParseInput(line, sp) ==
  /\ ret.call # "ParseInput"
  /\ ret.err # PanicIndexOutOfRange
  /\ LET str == Typed(line, sp)
         p == ParseInput(ret.ui, str)
     IN ret' = UIReturn("ParseInput", ret.ui, line, str, p.op, p.coord, p.err)
  /\ UNCHANGED <<field, state, quota, opened>>

NextUI ==
  \/ CallRender
  \/ /\ ret.call # "ParseInput"
     /\ \E line \in TokenLines, sp \in Spacings : CallParseInput(line, sp)

SpecUI == InitUI /\ [][NextUI]_vars

\* C28: once the tables of the default UI are initialised for the field,
\* ParseInput maps a line of a column number n in 1..Width and the k-th row
\* label to (Open, (n - 1, k)), the same with a third token f or flag to Flag
\* and with u or unflag to Unflag, in any case of letters, and returns
\* ErrInvalidInput and no coordinate for every other line: another number of
\* tokens, a column that is not a number in 1..Width, a row that is no label,
\* an unknown third token.
C28_ParseInputMapsLabelsToCoordinates ==
  (ret.call = "ParseInput" /\ ret.ui = initSymbols(field.Width, field.Height))
    => LET line == ret.line
           rows == {k \in 0..(field.Height - 1) :
                      Len(line) >= 2 /\ ret.ui.ySymbols[k + 1] = line[2].text}
           valid == /\ Len(line) \in {2, 3}
                    /\ line[1].numeric
                    /\ line[1].n \in 1..field.Width
                    /\ rows # {}
                    /\ Len(line) = 3 => line[3].op # NoOp
       IN IF valid
            THEN /\ ret.err = NoErr
                 /\ ret.op = IF Len(line) = 2 THEN Open ELSE line[3].op
                 /\ \E k \in rows : ret.coord = <<Coordinate(line[1].n - 1, k)>>
                 /\ Cardinality(rows) = 1
            ELSE /\ ret.err = ErrInvalidInput
                 /\ ret.coord = <<>>

\* After Render on a field of three columns and two rows, the line typed as
\* " 3<tab> b<tab> FLAG <newline>" has been parsed as Flag on (2, 1).
C28_Witness ==
  /\ ret.call = "ParseInput"
  /\ ret.ui = initSymbols(3, 2)
  /\ ret.str = <<" ", "3", "\t", " ", "b", "\t", " ", "F", "L", "A", "G", " ", "\n">>
  /\ ret.op = Flag
  /\ ret.coord = <<Coordinate(2, 1)>>
  /\ ret.err = NoErr

\* ------------------------------------ a grid larger than the field declares

\* A complete field object whose grid has more rows than its height, or a row
\* with more entries than its width.
GridLargerThanDeclared(fd) ==
  /\ DOMAIN fd = {"width", "height", "cells"}
  /\ \/ Len(fd.cells) > fd.height
     \/ \E i \in 1..Len(fd.cells) : Len(fd.cells[i]) > fd.width

\* C31: decoding a field document whose grid has more rows than the declared
\* height, or a row with more entries than the declared width, returns an
\* error and no field (Restore: no Game) and does not crash.
C31_GridMismatchIsAnError ==
  (/\ ret.call = "Restore"
   /\ ~ret.optErr
   /\ DOMAIN ret.doc = {"state", "quota", "opened", "field"}
   /\ ret.doc.state \in GameStateNames
   /\ GridLargerThanDeclared(ret.doc.field))
  => /\ ret.err \notin {NoErr, PanicIndexOutOfRange, PanicMakeslice}
     /\ FieldUnmarshalJSON(ret.doc.field).err
          \notin {NoErr, PanicIndexOutOfRange, PanicMakeslice}
     /\ state = NoGame
     /\ field = NilField

\* ------------------------------------------- what Game.Operate hands back

\* C32: on every path of Game.Operate that returns (finished game, parse
\* failure, field error, successful Open, Flag or Unflag) the GameState
\* returned is the state the game holds when the call returns.
C32_ReturnedStateIsStoredState ==
  (ret.call = "Operate" /\ ~Panicked) => ret.state = state

\* An Open returned Cleared without an error after an earlier Open had
\* returned InProgress, and the game holds Cleared.
C32_Witness ==
  /\ ret.call = "Operate"
  /\ ret.op = Open
  /\ ret.err = NoErr
  /\ ret.state = Cleared
  /\ state = Cleared
  /\ opened >= 2

\* C33: in a game from NewGame, opened starts at 0 and a step changes it only
\* if the step is a Game.Operate that opens: it returns no error and its
\* addressed cell, Closed before, is Opened after; the step then adds exactly
\* one, whatever else the cascade opened.  So opened is the number of such
\* Open operations so far.
C33_OpenedCountsSuccessfulOpens ==
  [][LET success == /\ ret'.call = "Operate"
                    /\ ret'.parsed
                    /\ ret'.op = Open
                    /\ ret'.err = NoErr
                    /\ ExplodedCells(field') = ExplodedCells(field)
     IN /\ ret'.call = "NewGame" => opened' = 0
        /\ (state # NoGame /\ ~success) => opened' = opened
        /\ (state # NoGame /\ success)
           => /\ opened' = opened + 1
              /\ \E c \in InRange(field) :
                   /\ CellAt(field, c).state = Closed
                   /\ CellAt(field', c).state = Opened
                   /\ Operate([op |-> Open, coord |-> c])]_vars

\* The second successful Open of a game: opened is 2 and the two calls have
\* opened more than two cells between them.
C33_Witness ==
  /\ ret.call = "Operate"
  /\ ret.op = Open
  /\ ret.err = NoErr
  /\ state = InProgress
  /\ opened = 2
  /\ Cardinality(OpenedCells(field)) > 3

\* C34: in a game created by NewGame and driven through Game.Operate,
\* 0 <= opened <= (number of Opened cells) <= quota in every state.
C34_OpenedAtMostOpenedCellsAtMostQuota ==
  state # NoGame
  => /\ 0 <= opened
     /\ opened <= Cardinality(OpenedCells(field))
     /\ Cardinality(OpenedCells(field)) <= quota

\* Two Opens have opened every cell without a mine: opened is 2, below the
\* number of Opened cells, which is the quota.
C34_Witness ==
  /\ ret.call = "Operate"
  /\ ret.op = Open
  /\ ret.err = NoErr
  /\ opened = 2
  /\ Cardinality(OpenedCells(field)) > opened
  /\ Cardinality(OpenedCells(field)) = quota
  /\ ExplodedCells(field) = {}

\* ------------------------------------------------ the cascade and the mines

\* C35: on a field built by NewField, a Field.Open that returns Opened leaves
\* every mined cell as it was, and a cell becomes Exploded only as the cell
\* an Open addresses.
C35_CascadeNeverTouchesAMine ==
  [][/\ (ret'.op = Open /\ ret'.result = Opened)
        => \A c \in MinedCells(field) : CellAt(field', c) = CellAt(field, c)
     /\ ExplodedCells(field') # ExplodedCells(field)
        => \E c \in InRange(field) :
             /\ ExplodedCells(field') = ExplodedCells(field) \cup {c}
             /\ ret'.result = Exploded
             /\ CallOpen(c)]_vars

\* An Open returned Opened; a cell with neighbour count 0 is Opened, so a
\* cascade has run, and a mined cell next to an Opened cell is still Closed.
C35_Witness ==
  /\ ret.call = "Field"
  /\ ret.op = Open
  /\ ret.result = Opened
  /\ \E c \in OpenedCells(field) : CellAt(field, c).surroundingCnt = 0
  /\ \E m \in MinedCells(field) :
       /\ CellAt(field, m).state = Closed
       /\ Adjacent(field, m) \cap OpenedCells(field) # {}

\* ------------------------------------------- a Game with its defaultUI

\* What the user of a game types: no token, a column and a row, or a column,
\* a row and a verb, with one space between the tokens.
GameLines ==
  LET cols == {x \in ColumnTokens :
                 x.text \in {<<"1">>, <<"2">>, <<"3">>, <<"4">>, <<"a">>}}
      rows == {y \in RowTokens :
                 y.text \in {<<"a">>, <<"b">>, <<"c">>, <<"A">>}}
      verbs == {v \in VerbTokens : v.text \in {<<"f">>, <<"u">>, <<"o">>}}
  IN {<<>>}
     \cup {<<x, y>> : x \in cols, y \in rows}
     \cup {<<x, y, v>> : x \in cols, y \in rows, v \in verbs}

\* The lines typed to the game on f: with MaxFlagged cells Flagged, none that
\* asks for one more.
LinesFor(f) ==
  IF Cardinality(FlaggedCells(f)) < MaxFlagged
    THEN GameLines
    ELSE {l \in GameLines : Len(l) < 3 \/ l[3].op # Flag}

\* The last call on the game or to Restore: the tables of Game.ui after it,
\* whether Game.Render has been called on this game, and the OpType parsed,
\* the GameState and the error returned.
GameReturn(call, ui, rendered, op, st, err) ==
  [call |-> call, ui |-> ui, rendered |-> rendered,
   op |-> op, state |-> st, err |-> err]

InitGameUI ==
  /\ field = NilField
  /\ state = NoGame
  /\ quota = 0
  /\ opened = 0
  /\ ret = GameReturn("none", defaultUI, FALSE, NoOp, NoGame, NoErr)

\* NewGame(config) without options: Game.ui is a &defaultUI{}.
NewGameDefaultUI(config, mines) ==
  /\ state = NoGame
  /\ IF validateConfig(config) # NoErr
       THEN /\ ret' = GameReturn("NewGame", defaultUI, FALSE, NoOp, NoGame,
                                 ErrFailedToInitializeField)
            /\ UNCHANGED <<field, state, quota, opened>>
     ELSE /\ field' = NewField(config, mines)
          /\ state' = InProgress
          /\ quota' = config.Width * config.Height - config.MineCnt
          /\ opened' = 0
          /\ ret' = GameReturn("NewGame", defaultUI, FALSE, NoOp, InProgress,
                               NoErr)

\* g.Save(w), then Restore(r) without options of the bytes written: the game
\* of the model becomes the one returned, whose Game.ui is a &defaultUI{}.
RestoreDefaultUI ==
  /\ state # NoGame
  /\ ~Panicked
  /\ LET r == Restore(Save(GameValue(state, quota, opened, field)), FALSE)
     IN /\ field' = r.game.field
        /\ state' = r.game.state
        /\ quota' = r.game.quota
        /\ opened' = r.game.opened
        /\ ret' = GameReturn("Restore", defaultUI, FALSE, NoOp, r.game.state,
                             r.err)

\* g.Render()
GameRender ==
  /\ state # NoGame
  /\ ~Panicked
  /\ LET r == Render(ret.ui, field)
     IN ret' = GameReturn("Render", r.ui, TRUE, NoOp, state, r.err)
  /\ UNCHANGED <<field, state, quota, opened>>

\* g.Operate(str) on a game whose Game.ui is its defaultUI.
OperateString(str) ==
  /\ state # NoGame
  /\ ~Panicked
  /\ IF state # InProgress
       THEN /\ ret' = GameReturn("Operate", ret.ui, ret.rendered, NoOp, state,
                                 ErrOperatingFinishedGame)
            /\ UNCHANGED <<field, state, quota, opened>>
     ELSE
       \E p \in {ParseInput(ret.ui, str)} :
       IF p.err # NoErr
         THEN /\ ret' = GameReturn("Operate", ret.ui, ret.rendered, NoOp,
                                   state, ErrFailedToParseInput)
              /\ UNCHANGED <<field, state, quota, opened>>
       ELSE IF p.op = Open
         THEN LET r == FieldOpen(field, p.coord[1])
                  g == handleOpenResult(
                         [state |-> state, quota |-> quota, opened |-> opened],
                         r.result)
              IN /\ field' = r.f
                 /\ state' = g.state
                 /\ opened' = g.opened
                 /\ quota' = g.quota
                 /\ ret' = GameReturn("Operate", ret.ui, ret.rendered, p.op,
                                      g.state, r.err)
       ELSE LET r == IF p.op = Flag THEN FieldFlag(field, p.coord[1])
                                    ELSE FieldUnflag(field, p.coord[1])
            IN /\ field' = r.f
               /\ ret' = GameReturn("Operate", ret.ui, ret.rendered, p.op,
                                    state, r.err)
               /\ UNCHANGED <<state, quota, opened>>

\* The most cells of the fields of the games played through the defaultUI.
MaxGameUICells == 4

\* The configurations NewGame is given: those of Configs, invalid ones
\* included, of at most MaxGameUICells cells.
GameUIConfigs ==
  {cfg \in Configs : cfg.Width * cfg.Height <= MaxGameUICells}

NextGameUI ==
  \/ /\ state = NoGame
     /\ \E config \in GameUIConfigs :
          \E mines \in MinePicks(config, FALSE) :
            NewGameDefaultUI(config, mines)
  \/ RestoreDefaultUI
  \/ GameRender
  \/ /\ state # NoGame
     /\ \E line \in LinesFor(field) : OperateString(Typed(line, [lead |-> <<>>, between |-> <<" ">>, trail |-> <<>>]))

SpecGameUI == InitGameUI /\ [][NextGameUI]_vars

\* C36 as stated: the tables of a default UI are filled only by Render, and
\* every Game.Operate call before the first Game.Render of a game from
\* NewGame or Restore returns a parse error and changes nothing.
C36_OperateBeforeRenderIsParseError ==
  [][/\ ret'.ui # defaultUI => ret'.rendered
     /\ (ret'.call = "Operate" /\ ~ret'.rendered)
        => /\ ret'.err = ErrFailedToParseInput
           /\ UNCHANGED <<field, state, quota, opened>>]_vars

\* C36 amended: the tables of a default UI are filled only by Render, and
\* every Game.Operate call before the first Game.Render of a game from
\* NewGame or Restore changes nothing and returns an error: the one of a
\* finished game if the game was restored finished, a parse error otherwise.
C36_OperateBeforeRenderIsRejected ==
  [][/\ ret'.ui # defaultUI => ret'.rendered
     /\ (ret'.call = "Operate" /\ ~ret'.rendered)
        => /\ ret'.err = IF state = InProgress THEN ErrFailedToParseInput
                                               ELSE ErrOperatingFinishedGame
           /\ ret'.state = state
           /\ ret'.ui = defaultUI
           /\ UNCHANGED <<field, state, quota, opened>>]_vars

\* A game restored in progress with cells already Opened and Flagged was
\* given a line before its first Render, and the line did not parse.
C36_Witness ==
  /\ ret.call = "Operate"
  /\ ~ret.rendered
  /\ ret.err = ErrFailedToParseInput
  /\ state = InProgress
  /\ OpenedCells(field) # {}
  /\ FlaggedCells(field) # {}

\* ------------------------------------------- a restored Game, played on

\* Restore of a snapshot from outside, then Game.Operate on the game returned.
NextRestored ==
  \/ /\ state = NoGame
     /\ ret.call = "none"
     /\ \E doc \in Snapshots : CallRestore(doc, FALSE)
  \/ /\ state # NoGame
     /\ \E p \in ParseResults(field) : Operate(p)

SpecRestored == Init /\ [][NextRestored]_vars

\* C37: a game restored from a snapshot with state InProgress and
\* opened >= quota never reaches Cleared by Game.Operate calls: opened stays
\* at or above quota, and the only finished state it reaches is Lost.
C37_RestoredOverQuotaNeverCleared ==
  []((/\ ret.call = "Restore"
      /\ ret.err = NoErr
      /\ state = InProgress
      /\ opened >= quota)
     => [](/\ state \in {InProgress, Lost}
           /\ opened >= quota))

\* A game restored with opened >= quota has had its last cell without a mine
\* opened by an Open and is still InProgress.
C37_Witness ==
  /\ ret.call = "Operate"
  /\ ret.op = Open
  /\ ret.err = NoErr
  /\ state = InProgress
  /\ quota > 0
  /\ opened > quota
  /\ SafeCells(field) # {}
  /\ SafeCells(field) \subseteq OpenedCells(field)

\* --------------------------------------- the revisions of Field.Open

\* The Field.Open that calls openSurroundings, and openSurroundings:
\* openSurroundingsFrom is its for loop from the i-th coordinate on.  The
\* result of target.open() is dropped.
RECURSIVE openSurroundings(_, _), openSurroundingsFrom(_, _, _)

\* The for loop of openSurroundings ended by the first Flagged neighbour
\* instead of passing over it.
openSurroundingsFrom_flagBlocks(f, coords, i) ==
  IF i > Len(coords)
    THEN f
  ELSE IF f.Cells[coords[i].Y][coords[i].X].state = Flagged
    THEN f
  ELSE IF f.Cells[coords[i].Y][coords[i].X].state # Closed
    THEN openSurroundingsFrom(f, coords, i + 1)
  ELSE
    LET c == coords[i]
        o == cellOpen(f.Cells[c.Y][c.X])
    IN openSurroundingsFrom(
         openSurroundings([f EXCEPT !.Cells[c.Y][c.X] = o.cell], c),
         coords, i + 1)

OpenBySurroundings(f, coord) ==
  LET x == coord.X
      y == coord.Y
  IN
  IF x + 1 > f.Width \/ y + 1 > f.Height
    THEN [f |-> f, result |-> NoResult, err |-> ErrCoordinateOutOfRange]
  ELSE IF x < 0 \/ y < 0
    THEN [f |-> f, result |-> NoResult, err |-> PanicIndexOutOfRange]
  ELSE
    LET o == cellOpen(f.Cells[y][x])
        f1 == [f EXCEPT !.Cells[y][x] = o.cell]
    IN
    IF o.err # NoErr
      THEN [f |-> f, result |-> NoResult, err |-> o.err]
    ELSE IF o.result = Exploded
      THEN [f |-> f1, result |-> o.result, err |-> NoErr]
    ELSE [f |-> openSurroundings(f1, coord), result |-> o.result, err |-> NoErr]

openSurroundings(f, coord) ==
  IF f.Cells[coord.Y][coord.X].surroundingCnt > 0
    THEN f
    ELSE openSurroundingsFrom(f, getSurroundingCoordinates(f, coord), 1)

openSurroundingsFrom(f, coords, i) ==
  IF i > Len(coords)
    THEN f
  ELSE IF f.Cells[coords[i].Y][coords[i].X].state # Closed
    THEN openSurroundingsFrom(f, coords, i + 1)
  ELSE
    LET c == coords[i]
        o == cellOpen(f.Cells[c.Y][c.X])
    IN openSurroundingsFrom(
         openSurroundings([f EXCEPT !.Cells[c.Y][c.X] = o.cell], c),
         coords, i + 1)

\* The Field.Open of the revision without cell.open: the cell's state is
\* tested and written in place.  openInPlaceFrom is its for loop from the
\* i-th coordinate on.
RECURSIVE OpenInPlace(_, _), openInPlaceFrom(_, _, _)

OpenInPlace(f, coord) ==
  LET x == coord.X
      y == coord.Y
  IN
  IF x + 1 > f.Width \/ y + 1 > f.Height
    THEN [f |-> f, result |-> NoResult, err |-> ErrCoordinateOutOfRange]
  ELSE IF x < 0 \/ y < 0
    THEN [f |-> f, result |-> NoResult, err |-> PanicIndexOutOfRange]
  ELSE
    LET cell == f.Cells[y][x] IN
    IF cell.state = Opened
      THEN [f |-> f, result |-> NoResult, err |-> ErrOpeningOpenedCell]
    ELSE IF cell.state = Flagged
      THEN [f |-> f, result |-> NoResult, err |-> ErrOpeningFlaggedCell]
    ELSE IF cell.mine
      THEN [f |-> [f EXCEPT !.Cells[y][x].state = Exploded],
            result |-> Exploded, err |-> NoErr]
    ELSE
      LET f1 == [f EXCEPT !.Cells[y][x].state = Opened] IN
      IF cell.surroundingCnt = 0
        THEN [f |-> openInPlaceFrom(f1, getSurroundingCoordinates(f1, coord), 1),
              result |-> Opened, err |-> NoErr]
        ELSE [f |-> f1, result |-> Opened, err |-> NoErr]

openInPlaceFrom(f, coords, i) ==
  IF i > Len(coords)
    THEN f
  ELSE IF f.Cells[coords[i].Y][coords[i].X].state = Closed
    THEN openInPlaceFrom(OpenInPlace(f, coords[i]).f, coords, i + 1)
  ELSE openInPlaceFrom(f, coords, i + 1)

\* ------------------------------ the revisions of Field.Open side by side

\* The last call: the coordinate given to Field.Open, and what each revision
\* of Field.Open returned and left of the field it was called on; the field
\* of the model is the one field.go's left.
RevisionsReturn(call, coord, open, bySurroundings, inPlace) ==
  [call |-> call, coord |-> coord, open |-> open,
   bySurroundings |-> bySurroundings, inPlace |-> inPlace]

\* Any *Field: mines and neighbour counts as NewField lays them out, every
\* cell in any state.
InitRevisions ==
  /\ \E cfg \in OpenConfigs :
       \E mines \in {m \in SUBSET (0..(cfg.Width * cfg.Height - 1)) :
                       Cardinality(m) = cfg.MineCnt} :
         \E st \in [InRange(NewField(cfg, mines)) -> CellState] :
           field = WithStates(NewField(cfg, mines), st)
  /\ state = NoGame
  /\ quota = 0
  /\ opened = 0
  /\ ret = RevisionsReturn("none", NoCoord, <<>>, <<>>, <<>>)

\* f.Open(coord), by each revision on its own copy of the field.
OpenByEachRevision(coord) ==
  /\ ret.call = "none"
  /\ \E a \in {FieldOpen(field, coord)} :
       /\ field' = a.f
       /\ ret' = RevisionsReturn("Open", coord,
                                 [result |-> a.result, err |-> a.err],
                                 OpenBySurroundings(field, coord),
                                 OpenInPlace(field, coord))
  /\ UNCHANGED <<state, quota, opened>>

NextRevisions ==
  \E coord \in InRange(field) \cup {Coordinate(field.Width, 0)} :
    OpenByEachRevision(coord)

SpecRevisions == InitRevisions /\ [][NextRevisions]_vars

====
